---------------------------- MODULE Spec2Model ----------------------------
(***************************************************************************)
(* Memory, an AI-powered second brain: the retrieval and ranking engine.   *)
(*                                                                         *)
(* The module models the App component's state (src/types.ts), the         *)
(* IndexedDB store (services/db) and the pure scoring functions            *)
(* (services/gemini).  Strings are sequences of one-character strings so   *)
(* that toLowerCase, includes, join and trim are computed.  Scores are     *)
(* integers in units of 1/SCALE.  Timestamps are whole days, except the    *)
(* debounce timer, which counts milliseconds.                              *)
(***************************************************************************)
EXTENDS Integers, Sequences, FiniteSets, TLC

VARIABLES
    store,          \* IndexedDB object store 'memories': id -> MemoryItem
    memories,       \* App state: the corpus as last loaded or patched
    insights,       \* App state: the insights as last generated
    searchQuery,    \* App state: the text of the search box
    searchResults,  \* App state: [isNull, items]; isNull is the value null
    isResurfacing,  \* App state
    isProcessing,   \* App state: a save is running
    timers,         \* pending setTimeout(performSearch, 500) handles
    quiet,          \* ms since the search effect last ran, up to DEBOUNCE_MS
    lastSearch,     \* the performSearch call that last ended
    evals,          \* performSearch calls awaiting getEmbedding
    save,           \* the running handleSave: its locals and its position
    puts,           \* saveMemory calls issued by handleResurface, not yet run
    updates,        \* handleUpdate calls awaiting their saveMemory
    deletes,        \* handleDelete calls awaiting their deleteMemory
    now,            \* Date.now(), in days
    nextId,         \* the next id crypto.randomUUID() hands out
    collStore,      \* IndexedDB object store 'collections': id -> Collection
    collections,    \* App state: the collections as last loaded
    loads,          \* the loadMemories calls in flight
    isLoading,      \* App state: the loading screen is shown
    mounts,         \* how many times the mount effect has run
    memory,         \* findRelatedMemories: parameter memory
    allMemories,    \* findRelatedMemories: parameter allMemories
    related         \* findRelatedMemories: [done, ids]

vars == << store, memories, insights, searchQuery, searchResults, isResurfacing,
           isProcessing, timers, quiet, lastSearch, evals, save, puts, updates, deletes, now,
           nextId, collStore, collections, loads, isLoading, mounts,
           memory, allMemories, related >>

---------------------------------------------------------------------------
(* Bounds of the model                                                     *)

MaxCorpus == 8

\* Saves started in a run of SpecLink, and of SpecStore.
MaxSaves == 7
MaxStoreSaves == 2

\* Store operations in flight beside the save in a run of SpecStore.
MaxPending == 1

\* handleResurface is not started once a memory has been resurfaced this
\* many times.
MaxResurface == 2

---------------------------------------------------------------------------
(* Program constants                                                       *)

\* Scores are kept as integers: 1.0 is SCALE.
SCALE == 10000

\* findRelatedMemories: threshold = 0.65, topicBoost 0.1, slice(0, 5)
RELATED_THRESHOLD == 6500
TOPIC_BOOST == 1000
RELATED_LIMIT == 5

\* handleResurface: slice(0, 5)
RESURFACE_LIMIT == 5

\* The search effect: setTimeout(performSearch, 500)
DEBOUNCE_MS == 500

\* handleResurface, in days and in units of 1/SCALE: ONE_WEEK, ONE_MONTH,
\* importance || 0.5, += 0.3, += 0.2, resurfaceCount * 0.1
ONE_WEEK == 7
ONE_MONTH == 30
IMPORTANCE_DEFAULT == 5000
SWEET_SPOT_BONUS == 3000
OLD_BONUS == 2000
FATIGUE == 1000

---------------------------------------------------------------------------
(* Strings                                                                 *)

\* String.prototype.toLowerCase on one character of the model's alphabet.
ToLowerChar(c) ==
    CASE c = "R" -> "r"
      [] c = "E" -> "e"
      [] c = "D" -> "d"
      [] c = "C" -> "c"
      [] c = "A" -> "a"
      [] c = "L" -> "l"
      [] c = "M" -> "m"
      [] c = "S" -> "s"
      [] c = "K" -> "k"
      [] c = "Y" -> "y"
      [] OTHER -> c

ToLowerCase(s) == [i \in 1..Len(s) |-> ToLowerChar(s[i])]

\* String.prototype.includes
Includes(s, sub) ==
    \E i \in 1..(Len(s) - Len(sub) + 1) : SubSeq(s, i, i + Len(sub) - 1) = sub

\* String.prototype.trim: strip the white space at both ends.
RECURSIVE TrimStart(_)
TrimStart(s) ==
    IF s # <<>> /\ Head(s) = " " THEN TrimStart(Tail(s)) ELSE s

RECURSIVE TrimEnd(_)
TrimEnd(s) ==
    IF s # <<>> /\ s[Len(s)] = " " THEN TrimEnd(SubSeq(s, 1, Len(s) - 1)) ELSE s

TrimMut(s) == s

Trim(s) == TrimEnd(TrimStart(s))

\* An array element that is not a string (a number in the AI's answer) is
\* written with a leading "#": join makes a string of it, and it has no
\* toLowerCase.
IsString(x) == x = <<>> \/ x[1] # "#"

Stringify(x) == IF IsString(x) THEN x ELSE Tail(x)

\* Array.prototype.join(' ')
RECURSIVE JoinSpace(_)
JoinSpace(parts) ==
    IF parts = <<>> THEN <<>>
    ELSE IF Len(parts) = 1 THEN Stringify(parts[1])
    ELSE Stringify(parts[1]) \o <<" ">> \o JoinSpace(Tail(parts))

---------------------------------------------------------------------------
(* Sequences                                                               *)

\* Array.prototype.slice(0, n)
SliceTo(s, n) == SubSeq(s, 1, IF Len(s) < n THEN Len(s) ELSE n)

Range(s) == {s[i] : i \in 1..Len(s)}

Has(r, f) == f \in DOMAIN r

\* a || b on numbers and absent fields: b when the field is absent or 0.
OrElse(r, f, default) == IF Has(r, f) /\ r[f] # 0 THEN r[f] ELSE default

Min(a, b) == IF a < b THEN a ELSE b

---------------------------------------------------------------------------
(* services/vector: cosineSimilarity                                       *)

RECURSIVE Dot(_, _)
Dot(a, b) ==
    IF a = <<>> THEN 0 ELSE a[1] * b[1] + Dot(Tail(a), Tail(b))

\* Math.sqrt, exact on the perfect squares the model's vectors produce
ISqrt(n) == CHOOSE r \in 0..n : r * r <= n /\ (r + 1) * (r + 1) > n

\* 0 when either vector is empty, the lengths differ or a magnitude is 0;
\* otherwise dot(a,b) / (|a| * |b|), in units of 1/SCALE.
cosineSimilarity(a, b) ==
    IF Len(a) = 0 \/ Len(b) = 0 \/ Len(a) # Len(b) THEN 0
    ELSE LET magA == ISqrt(Dot(a, a))
             magB == ISqrt(Dot(b, b))
         IN  IF magA = 0 \/ magB = 0 THEN 0
             ELSE (Dot(a, b) * SCALE) \div (magA * magB)

---------------------------------------------------------------------------
(* services/gemini: findRelatedMemories                                    *)

\* topicOverlap: the topics of memory that match a topic of other,
\* compared in lower case.
topicOverlap(m, other) ==
    Len(SelectSeq(m.aiMetadata.topics,
          LAMBDA t : \E j \in 1..Len(other.aiMetadata.topics) :
                        ToLowerCase(other.aiMetadata.topics[j]) = ToLowerCase(t)))

topicBoost(m, other) == IF topicOverlap(m, other) > 0 THEN TOPIC_BOOST ELSE 0

finalScore(m, other) ==
    cosineSimilarity(m.embedding, other.embedding) + topicBoost(m, other)

\* The loop of findRelatedMemories: skip self, push the ids that reach the
\* threshold, in the order of allMemories.
RECURSIVE relatedLoop(_, _, _)
relatedLoop(m, all, threshold) ==
    IF all = <<>> THEN <<>>
    ELSE LET other == Head(all)
             rest  == relatedLoop(m, Tail(all), threshold)
         IN  IF other.id = m.id THEN rest
             ELSE IF finalScore(m, other) >= threshold THEN <<other.id>> \o rest
             ELSE rest

findRelatedMemoriesNoSlice(m, all, threshold) == relatedLoop(m, all, threshold)

findRelatedMemoriesLast(m, all, threshold) ==
    LET ids == relatedLoop(m, all, threshold)
    IN  IF Len(ids) <= RELATED_LIMIT THEN ids
        ELSE SubSeq(ids, Len(ids) - RELATED_LIMIT + 1, Len(ids))

findRelatedMemories(m, all, threshold) ==
    SliceTo(relatedLoop(m, all, threshold), RELATED_LIMIT)

---------------------------------------------------------------------------
(* Values of the model                                                     *)

sRed  == <<"R", "e", "d">>
sRED  == <<"R", "E", "D">>
sred  == <<"r", "e", "d">>
sSky  == <<"S", "k", "y">>
sCalm == <<"C", "a", "l", "m">>
sNote == <<"a", " ", "r", "e", "d", " ", "c", "a", "r">>
sSea  == <<"s", "e", "a">>

\* Embeddings of magnitude 5: cos(vA,vB) = 0.96, cos(vA,vX) = 0.6,
\* cos(vB,vX) = 0.8.  <<>> is what getEmbedding returns when it fails.
vA == <<3, 4>>
vB == <<4, 3>>
vX == <<5, 0>>
vNone == <<>>

\* The AIMetadata analyzeContent returns (collection and importance are
\* always filled in there).
Metadata(summary, topics, mood, importance) ==
    [summary |-> summary, topics |-> topics, mood |-> mood,
     collection |-> "General", importance |-> importance]

\* The MemoryItem handleSave builds.
NewMemory(id, content, metadata, embedding, createdAt) ==
    [id |-> id, content |-> content, aiMetadata |-> metadata,
     embedding |-> embedding, createdAt |-> createdAt, resurfaceCount |-> 0]

NullResults == [isNull |-> TRUE, items |-> <<>>]
NoSave == [pc |-> "idle"]
NoRelated == [done |-> FALSE, ids |-> <<>>]

\* setTimeout(performSearch, 500): performSearch closes over the query, the
\* corpus and isResurfacing of the render that scheduled it.
Timer(q, mem, res) ==
    [q |-> q, mem |-> mem, isResurfacing |-> res, left |-> DEBOUNCE_MS]

NoSearch == [ran |-> FALSE]

\* The App as constructed (useState initial values) and rendered once: the
\* search effect has scheduled its first timer.
AppInit ==
    /\ memories = <<>>
    /\ insights = <<>>
    /\ searchQuery = <<>>
    /\ searchResults = NullResults
    /\ isResurfacing = FALSE
    /\ isProcessing = FALSE
    /\ timers = {Timer(<<>>, <<>>, FALSE)}
    /\ quiet = 0
    /\ lastSearch = NoSearch
    /\ evals = <<>>
    /\ save = NoSave
    /\ puts = {}
    /\ updates = {}
    /\ deletes = {}
    /\ collStore = << >>
    /\ collections = <<>>
    /\ loads = {}
    /\ isLoading = FALSE
    /\ mounts = 1

appVars == << store, memories, insights, searchQuery, searchResults, isResurfacing,
              isProcessing, timers, quiet, lastSearch, evals, save, puts, updates, deletes, now,
              nextId, collStore, collections, loads, isLoading, mounts >>

collectionVars == << collStore, collections, loads, isLoading, mounts >>

relatedVars == << memory, allMemories, related >>

RelatedIdle ==
    /\ memory = NewMemory(0, <<>>, Metadata(<<>>, <<>>, <<>>, 5000), vNone, 0)
    /\ allMemories = <<>>
    /\ related = NoRelated

---------------------------------------------------------------------------
(* findRelatedMemories on bounded inputs                                   *)

\* The memory being linked: embedded, or saved after getEmbedding failed.
RelatedSubjects ==
    { NewMemory(0, sNote, Metadata(sNote, <<sRed>>, <<sCalm>>, 5000), e, 1)
        : e \in {vA, vNone} }

\* The other memories: close; far with a topic in another case; far with
\* no common topic.
RelatedOthers ==
    { [embedding |-> vB, topics |-> <<sSky>>],
      [embedding |-> vX, topics |-> <<sSky, sRED>>],
      [embedding |-> vX, topics |-> <<sSky>>] }

RelatedInit ==
    /\ AppInit
    /\ store = << >>
    /\ now = 1
    /\ nextId = 1
    /\ memory \in RelatedSubjects
    /\ allMemories = <<>>
    /\ related = NoRelated

\* One more memory in the corpus handed to findRelatedMemories.
RelatedPush(k) ==
    /\ ~related.done
    /\ Len(allMemories) < MaxCorpus
    /\ allMemories' = Append(allMemories,
          NewMemory(Len(allMemories) + 1, sNote,
                    Metadata(sNote, k.topics, <<>>, 5000), k.embedding, 1))
    /\ UNCHANGED << memory, related >>
    /\ UNCHANGED appVars

\* The corpus holds the memory itself (a memory already stored).
RelatedPushSelf ==
    /\ ~related.done
    /\ Len(allMemories) < MaxCorpus
    /\ \A i \in 1..Len(allMemories) : allMemories[i].id # memory.id
    /\ allMemories' = Append(allMemories, memory)
    /\ UNCHANGED << memory, related >>
    /\ UNCHANGED appVars

RelatedCall ==
    /\ ~related.done
    /\ related' = [done |-> TRUE,
                   ids |-> findRelatedMemories(memory, allMemories,
                                               RELATED_THRESHOLD)]
    /\ UNCHANGED << memory, allMemories >>
    /\ UNCHANGED appVars

RelatedNext ==
    \/ \E k \in RelatedOthers : RelatedPush(k)
    \/ RelatedPushSelf
    \/ RelatedCall

SpecRelated == RelatedInit /\ [][RelatedNext]_vars

\* The corpus memory with a given id.
CorpusItem(id) ==
    allMemories[CHOOSE i \in 1..Len(allMemories) : allMemories[i].id = id]

\* Some topic of a equals some topic of b when both are lowercased.
SharesTopic(a, b) ==
    \E i \in 1..Len(a.aiMetadata.topics), j \in 1..Len(b.aiMetadata.topics) :
        ToLowerCase(a.aiMetadata.topics[i]) = ToLowerCase(b.aiMetadata.topics[j])

\* C9: findRelated never returns the memory's own id, never returns more
\* than 5 ids, and returns only ids of corpus memories whose finalScore
\* (similarity, plus 0.1 when a topic matches case-insensitively) reaches
\* the threshold 0.65.
C9_FindRelatedSound ==
    related.done =>
        /\ memory.id \notin Range(related.ids)
        /\ Len(related.ids) <= 5
        /\ \A id \in Range(related.ids) :
              /\ \E i \in 1..Len(allMemories) : allMemories[i].id = id
              /\ cosineSimilarity(memory.embedding, CorpusItem(id).embedding)
                    + (IF SharesTopic(memory, CorpusItem(id)) THEN 1000 ELSE 0)
                 >= 6500

\* Six memories qualify, the memory itself is in the corpus, one memory
\* qualifies only through the topic boost and one fails the threshold.
C9_Witness ==
    /\ related.done
    /\ Len(related.ids) = 5
    /\ \E i \in 1..Len(allMemories) : allMemories[i].id = memory.id
    /\ Len(relatedLoop(memory, allMemories, RELATED_THRESHOLD)) > 5
    /\ \E id \in Range(related.ids) :
          cosineSimilarity(memory.embedding, CorpusItem(id).embedding) < 6500
    /\ \E i \in 1..Len(allMemories) :
          /\ allMemories[i].id # memory.id
          /\ allMemories[i].id \notin Range(relatedLoop(memory, allMemories, RELATED_THRESHOLD))

---------------------------------------------------------------------------
(* services/db: the memories object store                                  *)

\* store.put(memory): insert, or replace the record with the same id.
Put(st, m) == (m.id :> m) @@ st

\* store.delete(id)
Delete(st, id) == [k \in DOMAIN st \ {id} |-> st[k]]

\* results.sort((a, b) => b.createdAt - a.createdAt) over index.getAll(),
\* which lists by createdAt and then by key: newest first, and among equal
\* createdAt the smaller key first.
RECURSIVE SortNewestFirst(_)
SortNewestFirst(ms) ==
    IF ms = {} THEN <<>>
    ELSE LET first == CHOOSE m \in ms : \A o \in ms :
                          \/ m.createdAt > o.createdAt
                          \/ m.createdAt = o.createdAt /\ m.id <= o.id
         IN  <<first>> \o SortNewestFirst(ms \ {first})

getAllMemories(st) == SortNewestFirst({st[k] : k \in DOMAIN st})

\* getAllCollections: getAll() and sort((a, b) => b.createdAt - a.createdAt);
\* the records have the fields of a memory that the sort reads.
getAllCollections(cs) == SortNewestFirst({cs[k] : k \in DOMAIN cs})

---------------------------------------------------------------------------
(* App: updateCollectionsFromMemories                                      *)

\* m.aiMetadata.collection || 'General'
collectionName(m) ==
    IF Has(m.aiMetadata, "collection") /\ m.aiMetadata.collection # ""
    THEN m.aiMetadata.collection ELSE "General"

\* Lines 222-228, one memory: its id is pushed on the entry of its
\* collection name, a new entry coming last.
MapPush(map, name, id) ==
    IF \E k \in 1..Len(map) : map[k].name = name
    THEN [k \in 1..Len(map) |->
             IF map[k].name = name
             THEN [map[k] EXCEPT !.memoryIds = Append(@, id)] ELSE map[k]]
    ELSE Append(map, [name |-> name, memoryIds |-> <<id>>])

\* Lines 220-228: collectionMap, as the sequence of its entries.
RECURSIVE collectionMap(_)
collectionMap(items) ==
    IF items = <<>> THEN <<>>
    ELSE LET last == items[Len(items)]
         IN  MapPush(collectionMap(SubSeq(items, 1, Len(items) - 1)),
                     collectionName(last), last.id)

\* Array.from(new Set(ids)): the first occurrence of each id is kept.
RECURSIVE Unique(_)
Unique(ids) ==
    IF ids = <<>> THEN <<>>
    ELSE LET front == Unique(SubSeq(ids, 1, Len(ids) - 1))
             last == ids[Len(ids)]
         IN  IF last \in Range(front) THEN front ELSE Append(front, last)

\* Line 238: [...existing.memoryIds, ...memoryIds] made unique.
MergedIds(existingIds, memoryIds) == Unique(existingIds \o memoryIds)

\* Lines 234-252, one entry: the collection that saveCollection is handed.
\* existing.find(c => c.name === name) takes the first of the snapshot; a
\* new collection gets an id no stored collection has.
CollectionFor(cs, existing, entry, t) ==
    LET hits == SelectSeq(existing, LAMBDA c : c.name = entry.name)
    IN  IF hits # <<>>
        THEN [hits[1] EXCEPT !.memoryIds = MergedIds(@, entry.memoryIds)]
        ELSE [id |-> Cardinality(DOMAIN cs) + 1, name |-> entry.name,
              memoryIds |-> entry.memoryIds, createdAt |-> t]

\* Lines 233-253 run without interruption over the entries todo.
RECURSIVE SaveCollections(_, _, _, _)
SaveCollections(cs, existing, todo, t) ==
    IF todo = <<>> THEN cs
    ELSE SaveCollections(Put(cs, CollectionFor(cs, existing, Head(todo), t)),
                         existing, Tail(todo), t)

\* Lines 219-253 run without interruption: the collections store after the
\* sync of items.
SyncedCollections(cs, items, t) ==
    SaveCollections(cs, getAllCollections(cs), collectionMap(items), t)

\* The collections of a store of memories that is in sync, loaded.
CollectionsLoaded ==
    /\ collStore = SyncedCollections(<< >>, getAllMemories(store), now)
    /\ collections = getAllCollections(collStore)
    /\ loads = {}
    /\ isLoading = FALSE
    /\ mounts = 1

---------------------------------------------------------------------------
(* services/gemini: generateInsights                                       *)

\* generateInsights: memories.length < 3, slice(0, 3), count >= 2,
\* relatedMemories.length >= 2, importance > 0.6, slice(0, 3), relevance 0.8
INSIGHT_MIN_CORPUS == 3
TOP_TOPICS == 3
PATTERN_MIN_COUNT == 2
PATTERN_MIN_MEMORIES == 2
REMINDER_IMPORTANCE == 6000
REMINDER_LIMIT == 3
REMINDER_RELEVANCE == 8000

\* Lines 216-218: topicFrequency[topic] = (topicFrequency[topic] || 0) + 1.
\* The object's keys are strings, kept in the order of their first write.
Bump(entries, topic) ==
    LET key == Stringify(topic)
        at == {i \in 1..Len(entries) : entries[i].topic = key}
    IN  IF at = {} THEN Append(entries, [topic |-> key, count |-> 1])
        ELSE [i \in 1..Len(entries) |->
                 IF i \in at THEN [entries[i] EXCEPT !.count = @ + 1]
                 ELSE entries[i]]

RECURSIVE BumpAll(_, _)
BumpAll(entries, topics) ==
    IF topics = <<>> THEN entries
    ELSE BumpAll(Bump(entries, Head(topics)), Tail(topics))

\* Lines 215-220: every occurrence of a topic in a memory's topics counts.
RECURSIVE topicFrequency(_)
topicFrequency(mem) ==
    IF mem = <<>> THEN <<>>
    ELSE BumpAll(topicFrequency(SubSeq(mem, 1, Len(mem) - 1)),
                 mem[Len(mem)].aiMetadata.topics)

\* Array.prototype.sort((a, b) => b[1] - a[1]): stable, descending.
InsertByCount(sorted, c) ==
    LET before == {j \in 1..Len(sorted) : sorted[j].count < c.count}
        at == IF before = {} THEN Len(sorted) + 1
              ELSE CHOOSE j \in before : \A k \in before : j <= k
    IN  SubSeq(sorted, 1, at - 1) \o <<c>> \o SubSeq(sorted, at, Len(sorted))

RECURSIVE SortByCount(_)
SortByCount(cs) ==
    IF cs = <<>> THEN <<>>
    ELSE InsertByCount(SortByCount(SubSeq(cs, 1, Len(cs) - 1)), cs[Len(cs)])

\* Lines 222-225: the entries sorted, the first three, those counted twice.
topTopics(mem) ==
    SelectSeq(SliceTo(SortByCount(topicFrequency(mem)), TOP_TOPICS),
              LAMBDA c : c.count >= PATTERN_MIN_COUNT)

\* Lines 228-230: the ids of the memories whose topics include the topic.
relatedMemories(mem, topic) ==
    LET hits == SelectSeq(mem, LAMBDA m : topic \in Range(m.aiMetadata.topics))
    IN  [i \in 1..Len(hits) |-> hits[i].id]

\* Lines 233-239: the pattern insight of one top topic.  topic is the topic
\* named in the title and the description, count the number the description
\* gives.
PatternInsight(mem, c) ==
    [type |-> "pattern", topic |-> c.topic, count |-> c.count,
     memoryIds |-> relatedMemories(mem, c.topic),
     relevance |-> Min(SCALE, (c.count * SCALE) \div Len(mem))]

\* Lines 227-241
patternInsights(mem) ==
    LET top == topTopics(mem)
        all == [i \in 1..Len(top) |-> PatternInsight(mem, top[i])]
    IN  SelectSeq(all, LAMBDA p : Len(p.memoryIds) >= PATTERN_MIN_MEMORIES)

forgottenMemoriesMut(mem, t) ==
    LET old == SelectSeq(mem, LAMBDA m :
                   /\ t - OrElse(m, "lastResurfaced", m.createdAt) >= ONE_MONTH
                   /\ OrElse(m.aiMetadata, "importance", IMPORTANCE_DEFAULT)
                          > REMINDER_IMPORTANCE)
        first == SliceTo(old, REMINDER_LIMIT)
    IN  [i \in 1..Len(first) |-> first[i].id]

\* Lines 246-252
forgottenMemories(mem, t) ==
    LET old == SelectSeq(mem, LAMBDA m :
                   /\ t - OrElse(m, "lastResurfaced", m.createdAt) > ONE_MONTH
                   /\ OrElse(m.aiMetadata, "importance", IMPORTANCE_DEFAULT)
                          > REMINDER_IMPORTANCE)
        first == SliceTo(old, REMINDER_LIMIT)
    IN  [i \in 1..Len(first) |-> first[i].id]

\* Lines 254-262
reminderInsights(mem, t) ==
    LET forgotten == forgottenMemories(mem, t)
    IN  IF Len(forgotten) > 0
        THEN << [type |-> "reminder", topic |-> <<>>, count |-> Len(forgotten),
                 memoryIds |-> forgotten, relevance |-> REMINDER_RELEVANCE] >>
        ELSE <<>>

\* Lines 208-265
generateInsights(mem, t) ==
    IF Len(mem) < INSIGHT_MIN_CORPUS THEN <<>>
    ELSE patternInsights(mem) \o reminderInsights(mem, t)

\* App, lines 180-184: the effect on [memories].  generateInsights awaits
\* nothing, so its promise settles, and setInsights runs, before any other
\* task.
InsightsEffectMut(items) ==
    insights' = IF Len(items) >= INSIGHT_MIN_CORPUS THEN generateInsights(items, now)
                ELSE insights

InsightsEffect(items) ==
    insights' = IF Len(items) > 0 THEN generateInsights(items, now)
                ELSE insights

\* The insights of a corpus that has just been loaded.
InsightsShown == insights = generateInsights(memories, now)

---------------------------------------------------------------------------
(* App: effects of setMemories and setSearchQuery                          *)

\* The cleanup of the search effect: clearTimeout(timeoutId).
ClearTimeoutMut(ts) == ts

ClearTimeout(ts) == {}

\* The search effect runs when searchQuery or memories changed: the cleanup
\* clears the pending timer and a new one is set.
SearchEffect(q, mem, res) ==
    /\ timers' = ClearTimeout(timers) \cup {Timer(q, mem, res)}
    /\ quiet' = 0

\* setMemories(items): a new array, so the effects on [memories] always run
\* again.
SetMemories(items) ==
    /\ memories' = items
    /\ SearchEffect(searchQuery, items, isResurfacing)
    /\ InsightsEffect(items)

---------------------------------------------------------------------------
(* App: handleSave                                                         *)

\* relatedMemoryIds || []
RelatedOf(m) ==
    IF Has(m.aiMetadata, "relatedMemoryIds") THEN m.aiMetadata.relatedMemoryIds
    ELSE <<>>

\* { ...related, aiMetadata: { ...related.aiMetadata, relatedMemoryIds: [..., id] } }
WithBackLinkMut(rel, id) == rel

WithBackLink(rel, id) ==
    [rel EXCEPT !.aiMetadata =
        [relatedMemoryIds |-> Append(RelatedOf(rel), id)] @@ rel.aiMetadata]

\* newMemory.aiMetadata.relatedMemoryIds = relatedIds
WithRelated(m, ids) ==
    [m EXCEPT !.aiMetadata = [relatedMemoryIds |-> ids] @@ m.aiMetadata]

\* allMemories.find(m => m.id === relatedId): a set of at most one record.
FindById(all, id) == {all[i] : i \in {j \in 1..Len(all) : all[j].id = id}}

HandleSaveStartMut(limit) ==
    /\ nextId <= limit
    /\ isProcessing' = TRUE
    /\ now' = now + 1
    /\ nextId' = nextId + 1
    /\ save' = [pc |-> "analyzing", id |-> nextId, createdAt |-> now + 1]
    /\ UNCHANGED << store, memories, insights, searchQuery, searchResults,
                    isResurfacing, timers, quiet, lastSearch, evals, puts, updates, deletes >>
    /\ UNCHANGED relatedVars
    /\ UNCHANGED collectionVars

\* Lines 354-359: the guard passes (there is input and no save is running);
\* isProcessing is set and the id and createdAt are drawn.
HandleSaveStart(limit) ==
    /\ ~isProcessing
    /\ nextId <= limit
    /\ isProcessing' = TRUE
    /\ now' = now + 1
    /\ nextId' = nextId + 1
    /\ save' = [pc |-> "analyzing", id |-> nextId, createdAt |-> now + 1]
    /\ UNCHANGED << store, memories, insights, searchQuery, searchResults,
                    isResurfacing, timers, quiet, lastSearch, evals, puts, updates, deletes >>
    /\ UNCHANGED relatedVars
    /\ UNCHANGED collectionVars

\* Lines 386-402: analyzeContent and getEmbedding have answered (neither
\* throws); newMemory is built.
HandleSaveAnalyzed(content, metadata, embedding) ==
    /\ save.pc = "analyzing"
    /\ save' = [pc |-> "reading", id |-> save.id, createdAt |-> save.createdAt,
                newMemory |-> NewMemory(save.id, content, metadata, embedding,
                                        save.createdAt)]
    /\ UNCHANGED << store, memories, insights, searchQuery, searchResults, isResurfacing,
                    isProcessing, timers, quiet, lastSearch, evals, puts, updates, deletes, now,
                    nextId >>
    /\ UNCHANGED relatedVars
    /\ UNCHANGED collectionVars

\* Lines 405-407: the store is read, the related ids are computed and set
\* on newMemory.
HandleSaveRead ==
    /\ save.pc = "reading"
    /\ LET all == getAllMemories(store)
           ids == findRelatedMemories(save.newMemory, all, RELATED_THRESHOLD)
       IN  save' = [pc |-> "linking", id |-> save.id, createdAt |-> save.createdAt,
                    newMemory |-> WithRelated(save.newMemory, ids),
                    allMemories |-> all, relatedIds |-> ids, i |-> 1]
    /\ UNCHANGED << store, memories, insights, searchQuery, searchResults, isResurfacing,
                    isProcessing, timers, quiet, lastSearch, evals, puts, updates, deletes, now,
                    nextId >>
    /\ UNCHANGED relatedVars
    /\ UNCHANGED collectionVars

\* Lines 410-422, one iteration: the related memory is looked up in the
\* snapshot and written back whole with the new id appended.
HandleSaveLink ==
    /\ save.pc = "linking"
    /\ save.i <= Len(save.relatedIds)
    /\ LET found == FindById(save.allMemories, save.relatedIds[save.i])
       IN  IF found = {} THEN UNCHANGED store
           ELSE store' = Put(store, WithBackLink(CHOOSE r \in found : TRUE, save.id))
    /\ save' = [save EXCEPT !.i = save.i + 1]
    /\ UNCHANGED << memories, insights, searchQuery, searchResults, isResurfacing,
                    isProcessing, timers, quiet, lastSearch, evals, puts, updates, deletes, now,
                    nextId >>
    /\ UNCHANGED relatedVars
    /\ UNCHANGED collectionVars

\* Lines 420, 429-434: saveMemory(updatedRelated) rejects; the await throws
\* out of the loop into catch, and finally clears isProcessing.
HandleSaveLinkFails ==
    /\ save.pc = "linking"
    /\ save.i <= Len(save.relatedIds)
    /\ FindById(save.allMemories, save.relatedIds[save.i]) # {}
    /\ save' = [save EXCEPT !.pc = "failed"] @@ [failedAt |-> "link"]
    /\ isProcessing' = FALSE
    /\ UNCHANGED << store, memories, insights, searchQuery, searchResults, isResurfacing,
                    timers, quiet, lastSearch, evals, puts, updates, deletes, now,
                    nextId >>
    /\ UNCHANGED relatedVars
    /\ UNCHANGED collectionVars

\* Line 424: saveMemory(newMemory) succeeds.
HandleSavePut ==
    /\ save.pc = "linking"
    /\ save.i > Len(save.relatedIds)
    /\ store' = Put(store, save.newMemory)
    /\ save' = [save EXCEPT !.pc = "loading"]
    /\ UNCHANGED << memories, insights, searchQuery, searchResults, isResurfacing,
                    isProcessing, timers, quiet, lastSearch, evals, puts, updates, deletes, now,
                    nextId >>
    /\ UNCHANGED relatedVars
    /\ UNCHANGED collectionVars

\* Lines 424, 429-434: saveMemory(newMemory) rejects.
HandleSavePutFails ==
    /\ save.pc = "linking"
    /\ save.i > Len(save.relatedIds)
    /\ save' = [save EXCEPT !.pc = "failed"] @@ [failedAt |-> "put"]
    /\ isProcessing' = FALSE
    /\ UNCHANGED << store, memories, insights, searchQuery, searchResults, isResurfacing,
                    timers, quiet, lastSearch, evals, puts, updates, deletes, now,
                    nextId >>
    /\ UNCHANGED relatedVars
    /\ UNCHANGED collectionVars

\* Lines 425-427, 199-256, 432-434: loadMemories reads the store, sets
\* memories and syncs the collections; then finally clears isProcessing.
\* The load is taken in one step: no other load is in flight.
HandleSaveLoad ==
    /\ save.pc = "loading"
    /\ loads = {}
    /\ SetMemories(getAllMemories(store))
    /\ collStore' = SyncedCollections(collStore, getAllMemories(store), now)
    /\ collections' = getAllCollections(
                          SyncedCollections(collStore, getAllMemories(store), now))
    /\ save' = [save EXCEPT !.pc = "done"]
    /\ isProcessing' = FALSE
    /\ UNCHANGED << lastSearch, store, searchQuery, searchResults, isResurfacing,
                    evals, puts, updates, deletes, now, nextId, loads, isLoading,
                    mounts >>
    /\ UNCHANGED relatedVars

---------------------------------------------------------------------------
(* Saves one after another: the relation links in the store                *)

\* What the AI provider answers for a save: an embedded note about "Red",
\* or a note whose embedding failed.
LinkAnswers ==
    { [content |-> sNote, metadata |-> Metadata(sNote, <<sRed>>, <<sCalm>>, 5000),
       embedding |-> vA],
      [content |-> sSea, metadata |-> Metadata(sSea, <<sSky>>, <<>>, 5000),
       embedding |-> vNone] }

\* An empty store, loaded on mount.
LinkInit ==
    /\ AppInit
    /\ RelatedIdle
    /\ store = << >>
    /\ now = 0
    /\ nextId = 1

LinkNext ==
    \/ HandleSaveStart(MaxSaves)
    \/ \E a \in LinkAnswers : HandleSaveAnalyzed(a.content, a.metadata, a.embedding)
    \/ HandleSaveRead
    \/ HandleSaveLink
    \/ HandleSaveLinkFails
    \/ HandleSavePut
    \/ HandleSavePutFails
    \/ HandleSaveLoad

SpecLink == LinkInit /\ [][LinkNext]_vars

\* C6: a write failure for one related memory during the bidirectional
\* update does not abort the batch: when the save has ended after such a
\* failure, every back-link write was attempted and the new memory is stored.
C6_LinkFailureDoesNotAbort ==
    (save.pc = "failed" /\ save.failedAt = "link") =>
        /\ save.i > Len(save.relatedIds)
        /\ save.id \in DOMAIN store

\* C7: every stored memory's relatedMemoryIds has at most 5 entries and
\* never contains the memory's own id.
C7_RelatedBounded ==
    \A id \in DOMAIN store :
        /\ Len(RelatedOf(store[id])) <= 5
        /\ id \notin Range(RelatedOf(store[id]))

\* C8: after a save has completed successfully, every memory named in the
\* new memory's relatedMemoryIds is stored with the new memory's id as the
\* last entry of its own relatedMemoryIds.
C8_Bidirectional ==
    save.pc = "done" =>
        /\ save.id \in DOMAIN store
        /\ RelatedOf(store[save.id]) = save.relatedIds
        /\ \A r \in Range(save.relatedIds) :
              /\ r \in DOMAIN store
              /\ RelatedOf(store[r]) # <<>>
              /\ RelatedOf(store[r])[Len(RelatedOf(store[r]))] = save.id

\* A save that linked the new memory to two others has completed.
C8_Witness ==
    /\ save.pc = "done"
    /\ Len(save.relatedIds) >= 2

---------------------------------------------------------------------------
(* App: handleResurface                                                    *)

\* Lines 477-481: the bonus for the time since the memory was last seen.
stalenessBonus(age) ==
    IF age > ONE_WEEK /\ age < ONE_MONTH THEN SWEET_SPOT_BONUS
    ELSE IF age > ONE_MONTH THEN OLD_BONUS
    ELSE 0

\* Line 468: m.aiMetadata.importance || 0.5
baseImportance(m) == OrElse(m.aiMetadata, "importance", IMPORTANCE_DEFAULT)

\* Lines 466-485: the score of one candidate, read from the memory held in
\* the App state.
ResurfaceScore(m, t) ==
    LET lastSeen == OrElse(m, "lastResurfaced", m.createdAt)
        age == t - lastSeen
        resurfaceCount == OrElse(m, "resurfaceCount", 0)
    IN  baseImportance(m) + stalenessBonus(age) - resurfaceCount * FATIGUE

InsertByScoreMut(sorted, c) ==
    LET before == {j \in 1..Len(sorted) : sorted[j].score <= c.score}
        at == IF before = {} THEN Len(sorted) + 1
              ELSE CHOOSE j \in before : \A k \in before : j <= k
    IN  SubSeq(sorted, 1, at - 1) \o <<c>> \o SubSeq(sorted, at, Len(sorted))

\* Array.prototype.sort((a, b) => b.score - a.score): stable, descending.
InsertByScore(sorted, c) ==
    LET before == {j \in 1..Len(sorted) : sorted[j].score < c.score}
        at == IF before = {} THEN Len(sorted) + 1
              ELSE CHOOSE j \in before : \A k \in before : j <= k
    IN  SubSeq(sorted, 1, at - 1) \o <<c>> \o SubSeq(sorted, at, Len(sorted))

RECURSIVE SortByScore(_)
SortByScore(cs) ==
    IF cs = <<>> THEN <<>>
    ELSE InsertByScore(SortByScore(SubSeq(cs, 1, Len(cs) - 1)), cs[Len(cs)])

\* Lines 494-498: { ...c.memory, lastResurfaced: now, resurfaceCount: n + 1 }
Resurfaced(m, t) ==
    [lastResurfaced |-> t, resurfaceCount |-> OrElse(m, "resurfaceCount", 0) + 1] @@ m

\* Lines 465-501: the selected memories, updated, in score order.
ResurfaceSelection(mems, t) ==
    LET candidates == [i \in 1..Len(mems) |->
                          [memory |-> mems[i], score |-> ResurfaceScore(mems[i], t)]]
        top == SliceTo(SortByScore(candidates), RESURFACE_LIMIT)
    IN  [i \in 1..Len(top) |-> Resurfaced(top[i].memory, t)]

\* setSearchQuery(q): the search effect runs again only when the value
\* changed; res is isResurfacing as the next render sees it.
SetSearchQuery(q, res) ==
    /\ searchQuery' = q
    /\ IF q # searchQuery THEN SearchEffect(q, memories, res) ELSE UNCHANGED << timers, quiet >>

\* Lines 455-504, in one run to completion: each saveMemory(updated) is
\* issued and not awaited.
HandleResurface ==
    /\ Len(memories) # 0
    /\ isResurfacing' = TRUE
    /\ SetSearchQuery(<<>>, TRUE)
    /\ LET selected == ResurfaceSelection(memories, now)
       IN  /\ puts' = puts \cup Range(selected)
           /\ searchResults' = [isNull |-> FALSE, items |-> selected]
    /\ UNCHANGED << lastSearch, store, memories, insights, isProcessing, evals, save, updates,
                    deletes, now, nextId >>
    /\ UNCHANGED relatedVars
    /\ UNCHANGED collectionVars

\* Line 499: one issued saveMemory(updated) writes its record.
ResurfacePut(p) ==
    /\ p \in puts
    /\ puts' = puts \ {p}
    /\ store' = Put(store, p)
    /\ UNCHANGED << memories, insights, searchQuery, searchResults, isResurfacing,
                    isProcessing, timers, quiet, lastSearch, evals, save, updates, deletes, now,
                    nextId >>
    /\ UNCHANGED relatedVars
    /\ UNCHANGED collectionVars

\* Line 499: one issued saveMemory(updated) rejects; console.error.
ResurfacePutFails(p) ==
    /\ p \in puts
    /\ puts' = puts \ {p}
    /\ UNCHANGED << store, memories, insights, searchQuery, searchResults, isResurfacing,
                    isProcessing, timers, quiet, lastSearch, evals, save, updates, deletes, now,
                    nextId >>
    /\ UNCHANGED relatedVars
    /\ UNCHANGED collectionVars

---------------------------------------------------------------------------
(* App: handleUpdate and handleDelete                                      *)

\* const displayMemories = searchResults || memories
displayMemories ==
    IF searchResults.isNull THEN memories ELSE searchResults.items

\* MemoryDetail.handleSave: the item with its summary edited.
EditSummary(item, summary) ==
    [item EXCEPT !.aiMetadata = [summary |-> summary] @@ item.aiMetadata]

\* Line 447: handleUpdate(updatedItem) starts and awaits saveMemory.
HandleUpdateStart(item) ==
    /\ updates' = updates \cup {item}
    /\ UNCHANGED << store, memories, insights, searchQuery, searchResults, isResurfacing,
                    isProcessing, timers, quiet, lastSearch, evals, save, puts, deletes, now,
                    nextId >>
    /\ UNCHANGED relatedVars
    /\ UNCHANGED collectionVars

\* Lines 447-448: saveMemory(updatedItem) has written; memories is patched.
HandleUpdatePut(u) ==
    /\ u \in updates
    /\ updates' = updates \ {u}
    /\ store' = Put(store, u)
    /\ SetMemories([i \in 1..Len(memories) |->
                       IF memories[i].id = u.id THEN u ELSE memories[i]])
    /\ UNCHANGED << lastSearch, searchQuery, searchResults, isResurfacing, isProcessing,
                    evals, save, puts, deletes, now, nextId >>
    /\ UNCHANGED relatedVars
    /\ UNCHANGED collectionVars

\* Line 447: saveMemory(updatedItem) rejects; nothing after the await runs.
HandleUpdateFails(u) ==
    /\ u \in updates
    /\ updates' = updates \ {u}
    /\ UNCHANGED << store, memories, insights, searchQuery, searchResults, isResurfacing,
                    isProcessing, timers, quiet, lastSearch, evals, save, puts, deletes, now,
                    nextId >>
    /\ UNCHANGED relatedVars
    /\ UNCHANGED collectionVars

\* Line 438: handleDelete(id) starts and awaits deleteMemory.
HandleDeleteStart(id) ==
    /\ deletes' = deletes \cup {[id |-> id, hadResults |-> ~searchResults.isNull]}
    /\ UNCHANGED << store, memories, insights, searchQuery, searchResults, isResurfacing,
                    isProcessing, timers, quiet, lastSearch, evals, save, puts, updates, now,
                    nextId >>
    /\ UNCHANGED relatedVars
    /\ UNCHANGED collectionVars

\* Lines 438-443: the record is deleted; searchResults (when the render that
\* started the delete had some) and memories drop the id.
HandleDeleteDone(d) ==
    /\ d \in deletes
    /\ deletes' = deletes \ {d}
    /\ store' = Delete(store, d.id)
    /\ searchResults' =
          IF d.hadResults /\ ~searchResults.isNull
          THEN [isNull |-> FALSE,
                items |-> SelectSeq(searchResults.items, LAMBDA m : m.id # d.id)]
          ELSE searchResults
    /\ SetMemories(SelectSeq(memories, LAMBDA m : m.id # d.id))
    /\ UNCHANGED << lastSearch, searchQuery, isResurfacing, isProcessing, evals, save,
                    puts, updates, now, nextId >>
    /\ UNCHANGED relatedVars
    /\ UNCHANGED collectionVars


---------------------------------------------------------------------------
(* Saves, resurfacing, edits and deletes interleaved                       *)

\* What the AI provider answers for a save in SpecStore.
StoreAnswers ==
    { [content |-> sNote, metadata |-> Metadata(sNote, <<sRed>>, <<sCalm>>, 5000),
       embedding |-> vA] }

StoreInit == LinkInit

\* The resurfacing writes, edits and deletes that have been started and
\* have not yet reached the store.
Pending == Cardinality(puts) + Cardinality(updates) + Cardinality(deletes)

StoreNext ==
    \/ HandleSaveStart(MaxStoreSaves)
    \/ \E a \in StoreAnswers : HandleSaveAnalyzed(a.content, a.metadata, a.embedding)
    \/ HandleSaveRead
    \/ HandleSaveLink
    \/ HandleSaveLinkFails
    \/ HandleSavePut
    \/ HandleSavePutFails
    \/ HandleSaveLoad
    \/ /\ Pending < MaxPending
       /\ \A i \in 1..Len(memories) :
             OrElse(memories[i], "resurfaceCount", 0) < MaxResurface
       /\ HandleResurface
    \/ \E p \in puts : ResurfacePut(p)
    \/ \E p \in puts : ResurfacePutFails(p)
    \/ \E i \in 1..Len(displayMemories) :
          Pending < MaxPending
            /\ HandleUpdateStart(EditSummary(displayMemories[i], sSea))
    \/ \E u \in updates : HandleUpdatePut(u)
    \/ \E u \in updates : HandleUpdateFails(u)
    \/ \E i \in 1..Len(displayMemories) :
          Pending < MaxPending /\ HandleDeleteStart(displayMemories[i].id)
    \/ \E d \in deletes : HandleDeleteDone(d)

SpecStore == StoreInit /\ [][StoreNext]_vars


\* The smaller of two numbers.
\* No write to the store is in flight.
StoreQuiet == puts = {} /\ updates = {} /\ deletes = {} /\ ~isProcessing

\* C3: a resurface operation on n >= 1 memories returns exactly min(5, n)
\* memories, each returned with lastResurfaced equal to the invocation time
\* and resurfaceCount one more than the count persisted for it before the
\* operation; and each record the operation persists has a resurfaceCount
\* one more than the record it replaces.
C3_ResurfaceBookkeeping ==
    [][ /\ HandleResurface =>
              /\ Len(searchResults'.items) = Min(5, Len(memories))
              /\ \A i \in 1..Len(searchResults'.items) :
                    LET r == searchResults'.items[i]
                    IN  /\ r.lastResurfaced = now
                        /\ r.id \in DOMAIN store =>
                              r.resurfaceCount
                                 = OrElse(store[r.id], "resurfaceCount", 0) + 1
        /\ \A p \in puts :
              (ResurfacePut(p) /\ p.id \in DOMAIN store) =>
                  store'[p.id].resurfaceCount
                     = OrElse(store[p.id], "resurfaceCount", 0) + 1
      ]_vars

\* C4: every resurface operation scores each memory from the lastResurfaced
\* and resurfaceCount most recently persisted to the store (stated for
\* operations that start while no write is in flight).
C4_ResurfaceReadsPersisted ==
    [][ (HandleResurface /\ StoreQuiet) =>
            \A i \in 1..Len(memories) :
                LET m == memories[i]
                IN  m.id \in DOMAIN store =>
                      /\ OrElse(m, "lastResurfaced", m.createdAt)
                            = OrElse(store[m.id], "lastResurfaced",
                                     store[m.id].createdAt)
                      /\ OrElse(m, "resurfaceCount", 0)
                            = OrElse(store[m.id], "resurfaceCount", 0)
      ]_vars

\* The fields of a and b other than those named are present in both or in
\* neither, with equal values.
SameExcept(a, b, fields) ==
    \A f \in (DOMAIN a \cup DOMAIN b) \ fields :
        f \in DOMAIN a /\ f \in DOMAIN b /\ a[f] = b[f]

\* C5: a Resurfacing Selector write changes only lastResurfaced and
\* resurfaceCount of the stored record, and a Relation Linker back-link
\* write changes only relatedMemoryIds: every other field keeps the value
\* the store held.
C5_WritesOnlyOwnFields ==
    [][ /\ \A p \in puts :
              (ResurfacePut(p) /\ p.id \in DOMAIN store) =>
                  SameExcept(store[p.id], store'[p.id],
                             {"lastResurfaced", "resurfaceCount"})
        /\ (HandleSaveLink /\ save.relatedIds[save.i] \in DOMAIN store) =>
              LET r == save.relatedIds[save.i]
              IN  /\ SameExcept(store[r], store'[r], {"aiMetadata"})
                  /\ SameExcept(store[r].aiMetadata, store'[r].aiMetadata,
                                {"relatedMemoryIds"})
      ]_vars


---------------------------------------------------------------------------
(* App: performSearch, the hybrid search                                   *)

\* Granularity of the model's clock, in ms, and the getEmbedding calls of
\* performSearch that may be in flight together.
TICK_MS == 250
MaxInflight == 2

\* searchQuery.length < 3
SHORT_QUERY == 3

\* 60 * ONE_DAY, in days; recencyScore * 0.15; += 0.25; += 0.35;
\* r.score > 0.40; score: 0.5
RECENCY_DAYS == 60
RECENCY_WEIGHT == 1500
KEYWORD_BOOST == 2500
TAG_BOOST == 3500
SEARCH_THRESHOLD == 4000
FALLBACK_SCORE == 5000

Max(a, b) == IF a > b THEN a ELSE b

\* (r.f || []) on an array field
ArrOrEmpty(r, f) == IF Has(r, f) THEN r[f] ELSE <<>>

ShortMatchMut(m, lowerQ) == Includes(ToLowerCase(m.content), lowerQ)

\* Lines 274-278: the filter of the short-query path.
ShortMatch(m, lowerQ) ==
    \/ Includes(ToLowerCase(m.content), lowerQ)
    \/ Includes(ToLowerCase(m.aiMetadata.summary), lowerQ)
    \/ \E j \in 1..Len(ArrOrEmpty(m.aiMetadata, "topics")) :
          Includes(ToLowerCase(m.aiMetadata.topics[j]), lowerQ)

\* Lines 295-297: Math.max(0, 1 - age / (60 * ONE_DAY)) * 0.15
recencyBoost(m, t) ==
    (Max(0, RECENCY_DAYS - (t - m.createdAt)) * RECENCY_WEIGHT) \div RECENCY_DAYS

\* Lines 301-306: content, summary, topics and mood joined, in lower case.
allMetadataText(m) ==
    ToLowerCase(JoinSpace(<<m.content, m.aiMetadata.summary>>
                          \o ArrOrEmpty(m.aiMetadata, "topics")
                          \o ArrOrEmpty(m.aiMetadata, "mood")))

\* Line 314: topics and mood, in lower case.
exactTags(m) ==
    LET tags == ArrOrEmpty(m.aiMetadata, "topics") \o ArrOrEmpty(m.aiMetadata, "mood")
    IN  [j \in 1..Len(tags) |-> ToLowerCase(tags[j])]

keywordBoost(m, lowerQ) ==
    IF Includes(allMetadataText(m), lowerQ) THEN KEYWORD_BOOST ELSE 0

tagBoostMut(m, lowerQ) == 0

tagBoost(m, lowerQ) ==
    IF \E j \in 1..Len(exactTags(m)) : exactTags(m)[j] = lowerQ
    THEN TAG_BOOST ELSE 0

\* Line 314: t.toLowerCase() throws a TypeError on a tag that is not a string;
\* the map of lines 291-320 runs only for a non-empty query embedding.
HybridThrowsMut(mem, queryEmbedding) == FALSE

HybridThrows(mem, queryEmbedding) ==
    /\ Len(queryEmbedding) > 0
    /\ \E m \in Range(mem) :
          \E tag \in Range(ArrOrEmpty(m.aiMetadata, "topics"))
                        \cup Range(ArrOrEmpty(m.aiMetadata, "mood")) :
              ~IsString(tag)

\* Lines 292-319: the score of one memory on the hybrid path.
HybridScore(m, queryEmbedding, lowerQ, t) ==
    cosineSimilarity(queryEmbedding, m.embedding)
      + recencyBoost(m, t) + keywordBoost(m, lowerQ) + tagBoost(m, lowerQ)

\* Lines 288-321: nothing is scored when the query embedding is empty.
scoredResultsAll(q, mem, queryEmbedding, t) ==
    [i \in 1..Len(mem) |->
        [score |-> HybridScore(mem[i], queryEmbedding, ToLowerCase(q), t)] @@ mem[i]]

scoredResults(q, mem, queryEmbedding, t) ==
    IF Len(queryEmbedding) > 0 THEN scoredResultsAll(q, mem, queryEmbedding, t)
    ELSE <<>>

\* Lines 324-326: sort by score, descending, and keep score > 0.40.
rankedResults(scored) ==
    SelectSeq(SortByScore(scored), LAMBDA r : r.score > SEARCH_THRESHOLD)

\* Lines 330-337: content, summary and topics joined, in lower case,
\* include the query; every match gets the score 0.5.
fallbackMatchMut(m, lowerQ) == ShortMatch(m, lowerQ)

fallbackMatch(m, lowerQ) ==
    Includes(ToLowerCase(JoinSpace(<<m.content, m.aiMetadata.summary>>
                                   \o ArrOrEmpty(m.aiMetadata, "topics"))),
             lowerQ)

fallbackResults(q, mem) ==
    LET hits == SelectSeq(mem, LAMBDA m : fallbackMatch(m, ToLowerCase(q)))
    IN  [i \in 1..Len(hits) |-> [score |-> FALLBACK_SCORE] @@ hits[i]]

\* Lines 288-340: what performSearch hands to setSearchResults after the
\* embedding call.
finalResults(q, mem, queryEmbedding, t) ==
    LET ranked == rankedResults(scoredResults(q, mem, queryEmbedding, t))
    IN  IF Len(ranked) = 0 THEN fallbackResults(q, mem) ELSE ranked

---------------------------------------------------------------------------
(* App: the search box, the debounce timer and performSearch               *)

\* Line 754: onChange={(e) => setSearchQuery(e.target.value)}
TypeQuery(q) ==
    /\ SetSearchQuery(q, isResurfacing)
    /\ UNCHANGED << store, memories, insights, searchResults, isResurfacing, isProcessing,
                    lastSearch, evals, save, puts, updates, deletes, now, nextId >>
    /\ UNCHANGED relatedVars
    /\ UNCHANGED collectionVars

\* TICK_MS pass: a timer is due when nothing is left of its delay, and time
\* does not pass over a due timer.
Tick ==
    /\ \/ quiet < DEBOUNCE_MS
       \/ \E t \in timers : t.left > 0
    /\ \A t \in timers : t.left > 0
    /\ timers' = {[t EXCEPT !.left = Max(0, t.left - TICK_MS)] : t \in timers}
    /\ quiet' = Min(quiet + TICK_MS, DEBOUNCE_MS)
    /\ UNCHANGED << store, memories, insights, searchQuery, searchResults, isResurfacing,
                    isProcessing, lastSearch, evals, save, puts, updates, deletes,
                    now, nextId >>
    /\ UNCHANGED relatedVars
    /\ UNCHANGED collectionVars

\* The performSearch call that ended last, as the model remembers it.
Searched(kind, q, mem, queryEmbedding) ==
    [ran |-> TRUE, kind |-> kind, q |-> q, mem |-> mem,
     queryEmbedding |-> queryEmbedding]

\* Lines 260-285: a due timer runs performSearch up to its first return or
\* to the await of getEmbedding.  The query, the corpus and isResurfacing
\* are those of the render that set the timer.
TimerFire(t) ==
    /\ t \in timers
    /\ t.left = 0
    /\ timers' = timers \ {t}
    /\ IF Trim(t.q) = <<>>
       THEN /\ searchResults' = NullResults
            /\ lastSearch' = Searched("blank", t.q, t.mem, vNone)
            /\ UNCHANGED << isResurfacing, evals >>
       ELSE /\ isResurfacing' = IF t.isResurfacing THEN FALSE ELSE isResurfacing
            /\ IF Len(t.q) < SHORT_QUERY
               THEN /\ searchResults' =
                          [isNull |-> FALSE,
                           items |-> SelectSeq(t.mem,
                                       LAMBDA m : ShortMatch(m, ToLowerCase(t.q)))]
                    /\ lastSearch' = Searched("short", t.q, t.mem, vNone)
                    /\ UNCHANGED evals
               ELSE /\ Len(evals) < MaxInflight
                    /\ evals' = Append(evals, [q |-> t.q, mem |-> t.mem, NOW |-> now])
                    /\ UNCHANGED << searchResults, lastSearch >>
    /\ UNCHANGED << store, memories, insights, searchQuery, isProcessing, quiet, save, puts,
                    updates, deletes, now, nextId >>
    /\ UNCHANGED relatedVars
    /\ UNCHANGED collectionVars

\* Lines 285-342: getEmbedding answers the i-th call in flight (the empty
\* vector when it failed) and performSearch runs to its end.
EmbeddingDone(i, queryEmbedding) ==
    /\ i \in 1..Len(evals)
    /\ ~HybridThrows(evals[i].mem, queryEmbedding)
    /\ evals' = SubSeq(evals, 1, i - 1) \o SubSeq(evals, i + 1, Len(evals))
    /\ searchResults' =
          [isNull |-> FALSE,
           items |-> finalResults(evals[i].q, evals[i].mem, queryEmbedding,
                                  evals[i].NOW)]
    /\ lastSearch' = Searched("hybrid", evals[i].q, evals[i].mem, queryEmbedding)
    /\ UNCHANGED << store, memories, insights, searchQuery, isResurfacing, isProcessing,
                    timers, quiet, save, puts, updates, deletes, now, nextId >>
    /\ UNCHANGED relatedVars
    /\ UNCHANGED collectionVars

\* Lines 285-345: getEmbedding answers the i-th call in flight and a step of
\* the try block throws: catch logs "Search failed" and performSearch ends
\* without a call of setSearchResults.
SearchFailed(i, queryEmbedding) ==
    /\ i \in 1..Len(evals)
    /\ HybridThrows(evals[i].mem, queryEmbedding)
    /\ evals' = SubSeq(evals, 1, i - 1) \o SubSeq(evals, i + 1, Len(evals))
    /\ lastSearch' = Searched("failed", evals[i].q, evals[i].mem, queryEmbedding)
    /\ UNCHANGED << store, memories, insights, searchQuery, searchResults, isResurfacing,
                    isProcessing, timers, quiet, save, puts, updates, deletes, now,
                    nextId >>
    /\ UNCHANGED relatedVars
    /\ UNCHANGED collectionVars

---------------------------------------------------------------------------
(* Searching a loaded corpus while memories are deleted from it            *)

sre == <<"r", "e">>
scalm == <<"c", "a", "l", "m">>
sBlank == <<" ">>

\* What the user types into the search box.
Queries == {<<>>, sBlank, sre, sred, scalm, sSea}

\* What getEmbedding answers: a vector, or [] when the call failed.
QueryEmbeddings == {vNone, vA, vX}

\* A recent note and an old one, as saved by handleSave.
SearchCorpus ==
    LET recent == NewMemory(1, sNote, Metadata(sNote, <<sRed>>, <<sCalm>>, 5000), vA, 99)
        old    == NewMemory(2, sSea, Metadata(sSea, <<sSky>>, <<>>, 5000), vB, 10)
    IN  (1 :> recent) @@ (2 :> old)

\* The App mounted on a store of two memories: loadMemories has set
\* memories, and the search effect has set its timer on that render.
SearchInit ==
    /\ store = SearchCorpus
    /\ memories = getAllMemories(SearchCorpus)
    /\ searchQuery = <<>>
    /\ searchResults = NullResults
    /\ isResurfacing = FALSE
    /\ isProcessing = FALSE
    /\ timers = {Timer(<<>>, getAllMemories(SearchCorpus), FALSE)}
    /\ quiet = 0
    /\ lastSearch = NoSearch
    /\ evals = <<>>
    /\ save = NoSave
    /\ puts = {}
    /\ updates = {}
    /\ deletes = {}
    /\ now = 100
    /\ nextId = 3
    /\ RelatedIdle
    /\ CollectionsLoaded
    /\ InsightsShown

SearchNext ==
    \/ \E q \in Queries : TypeQuery(q)
    \/ Tick
    \/ \E t \in timers : TimerFire(t)
    \/ \E i \in 1..Len(evals), v \in QueryEmbeddings : EmbeddingDone(i, v)
    \/ \E i \in 1..Len(displayMemories) :
          Pending < MaxPending /\ HandleDeleteStart(displayMemories[i].id)
    \/ \E d \in deletes : HandleDeleteDone(d)

SpecSearch == SearchInit /\ [][SearchNext]_vars


\* C1: only the most recent query's result is delivered: a performSearch
\* call started for one query never writes searchResults when its embedding
\* call completes after the search box has changed to another query.
C1_LastWriteWins ==
    [][ \A i \in 1..Len(evals), v \in QueryEmbeddings :
            EmbeddingDone(i, v) => evals[i].q = searchQuery
      ]_vars

\* C2: performSearch starts only from a timer set for the query and the
\* corpus the App holds now, and only when the search effect has not run
\* again for the full 500 ms: a change of the query or of the corpus in the
\* quiet period cleared the timer that was pending.
C2_Debounce ==
    [][ \A t \in timers :
            TimerFire(t) =>
                /\ t.q = searchQuery
                /\ t.mem = memories
                /\ quiet >= DEBOUNCE_MS
      ]_vars

\* Two evaluations have started, for two queries typed one after the other,
\* each after its own quiet period.
C2_Witness ==
    /\ Len(evals) = 2
    /\ evals[1].q = sred
    /\ evals[2].q = sSea
    /\ searchQuery = sSea
    /\ timers = {}
    /\ quiet = DEBOUNCE_MS

\* The score the hybrid path would give with the vector term left out:
\* recency, substring and exact-tag boosts, starting at 0.
BoostOnlyResults(q, mem, t) ==
    rankedResults([k \in 1..Len(mem) |->
        [score |-> recencyBoost(mem[k], t) + keywordBoost(mem[k], ToLowerCase(q))
                     + tagBoost(mem[k], ToLowerCase(q))] @@ mem[k]])

---------------------------------------------------------------------------
(* performSearch applied to one query over a corpus drawn from a pool      *)

\* The memories of a corpus in a run of SpecRank.
MaxRank == 3

\* A query embedding at a right angle to vA: cos(vO,vA) = 0, cos(vO,vB) = 0.28
vO == <<4, -3>>

sCar == <<"c", "a", "r">>

\* Memories as handleSave stores them: a recent tagged note, two old notes
\* alike in all but id and date, a note whose embedding call failed, and a
\* note that carries "Red" as a mood only.
RankPool ==
    LET p1 == NewMemory(1, sNote, Metadata(sNote, <<sRed>>, <<sCalm>>, 5000), vA, 99)
        p2 == NewMemory(2, sSea, Metadata(sSea, <<sSky>>, <<>>, 5000), vB, 10)
        p3 == NewMemory(3, sSea, Metadata(sSea, <<sSky>>, <<>>, 5000), vB, 5)
        p4 == NewMemory(4, sCar, Metadata(sCar, <<sRED>>, <<>>, 5000), vNone, 70)
        p5 == NewMemory(5, sSky, Metadata(sSky, <<>>, <<sRed>>, 5000), vX, 50)
    IN  (1 :> p1) @@ (2 :> p2) @@ (3 :> p3) @@ (4 :> p4) @@ (5 :> p5)

RankStores ==
    { [k \in ids |-> RankPool[k]] :
        ids \in {S \in SUBSET DOMAIN RankPool : Cardinality(S) <= MaxRank} }

\* "car red" is found in no single field of the pool, and in the fields of
\* the fourth memory joined by spaces.
sCarRed == <<"c", "a", "r", " ", "r", "e", "d">>

RankQueries == {<<>>, sBlank, sre, sred, sRED, scalm, sSea, sCarRed}

RankEmbeddings == {vNone, vA, vX, vO}

\* The App with a corpus loaded and a query typed, at the moment the
\* debounce timer is due.
RankInit ==
    /\ store \in RankStores
    /\ memories = getAllMemories(store)
    /\ searchQuery \in RankQueries
    /\ searchResults = NullResults
    /\ isResurfacing = FALSE
    /\ isProcessing = FALSE
    /\ timers = {[Timer(searchQuery, memories, FALSE) EXCEPT !.left = 0]}
    /\ quiet = DEBOUNCE_MS
    /\ lastSearch = NoSearch
    /\ evals = <<>>
    /\ save = NoSave
    /\ puts = {}
    /\ updates = {}
    /\ deletes = {}
    /\ now = 100
    /\ nextId = 6
    /\ RelatedIdle
    /\ CollectionsLoaded
    /\ InsightsShown

RankNext ==
    \/ \E t \in timers : TimerFire(t)
    \/ \E i \in 1..Len(evals), v \in RankEmbeddings : EmbeddingDone(i, v)

SpecRank == RankInit /\ [][RankNext]_vars

\* The query equals, case-insensitively, a topic or a mood of m.
ExactTag(m, q) ==
    \E tag \in Range(m.aiMetadata.topics) \cup Range(m.aiMetadata.mood) :
        ToLowerCase(tag) = ToLowerCase(q)

\* Memory m is among items with the score given.
DeliveredWith(items, m, score) ==
    \E k \in 1..Len(items) : items[k].id = m.id /\ items[k].score = score

NothingRanked(i, v) ==
    Len(rankedResults(scoredResults(evals[i].q, evals[i].mem, v, evals[i].NOW))) = 0

\* items is the sequence hits, each element carrying the score 0.5.
IsFallbackOf(items, hits) ==
    /\ Len(items) = Len(hits)
    /\ \A k \in 1..Len(items) : items[k] = [score |-> FALLBACK_SCORE] @@ hits[k]

\* C12 as stated: when the hybrid path ranks nothing, the fallback result is
\* exactly the memories the short-query rule selects (content, summary or
\* some single topic contains the query in lower case), in corpus order,
\* each with the score 0.5.
C12_FallbackIsShortRule ==
    [][ \A i \in 1..Len(evals), v \in RankEmbeddings :
            (EmbeddingDone(i, v) /\ NothingRanked(i, v)) =>
                IsFallbackOf(searchResults'.items,
                    SelectSeq(evals[i].mem,
                        LAMBDA m : ShortMatch(m, ToLowerCase(evals[i].q))))
      ]_vars

\* C12, amended: when the hybrid path ranks nothing, the fallback result is
\* exactly the memories whose content, summary and topics, joined by single
\* spaces and in lower case, contain the query in lower case, in corpus
\* order, each with the score 0.5; every memory the short-query rule
\* selects is among them.
C12_FallbackIsJoinedMatch ==
    [][ \A i \in 1..Len(evals), v \in RankEmbeddings :
            (EmbeddingDone(i, v) /\ NothingRanked(i, v)) =>
                /\ IsFallbackOf(searchResults'.items,
                      SelectSeq(evals[i].mem,
                          LAMBDA m :
                            Includes(ToLowerCase(JoinSpace(
                                        <<m.content, m.aiMetadata.summary>>
                                          \o m.aiMetadata.topics)),
                                     ToLowerCase(evals[i].q))))
                /\ \A m \in Range(evals[i].mem) :
                      ShortMatch(m, ToLowerCase(evals[i].q))
                        => DeliveredWith(searchResults'.items, m, FALLBACK_SCORE)
      ]_vars

\* "car red" was searched over a corpus holding the fourth memory: no field
\* of it contains the query, and the fallback delivers it with 0.5.
C12_Witness ==
    /\ lastSearch.ran
    /\ lastSearch.kind = "hybrid"
    /\ lastSearch.q = sCarRed
    /\ \E k \in 1..Len(lastSearch.mem) :
          /\ lastSearch.mem[k].id = 4
          /\ ~ShortMatch(lastSearch.mem[k], sCarRed)
          /\ DeliveredWith(searchResults.items, lastSearch.mem[k], FALLBACK_SCORE)


\* The position of the memory with this id in a sequence of memories.
IndexOf(seq, id) == CHOOSE k \in 1..Len(seq) : seq[k].id = id

\* C13: whenever the hybrid path delivers ranked results, every delivered
\* memory has a score above 0.40, every corpus memory scoring above 0.40 is
\* delivered with its score, and the sequence is in non-increasing score
\* order, equal scores keeping corpus order.
C13_RankedResults ==
    [][ \A i \in 1..Len(evals), v \in RankEmbeddings :
            (EmbeddingDone(i, v) /\ ~NothingRanked(i, v)) =>
                LET items == searchResults'.items
                    mem == evals[i].mem
                    Score(m) == HybridScore(m, v, ToLowerCase(evals[i].q), evals[i].NOW)
                IN  /\ \A k \in 1..Len(items) :
                          /\ items[k].score > SEARCH_THRESHOLD
                          /\ \E m \in Range(mem) :
                                items[k] = [score |-> Score(m)] @@ m
                    /\ \A m \in Range(mem) :
                          Score(m) > SEARCH_THRESHOLD
                            => DeliveredWith(items, m, Score(m))
                    /\ \A j, k \in 1..Len(items) :
                          j < k =>
                            \/ items[j].score > items[k].score
                            \/ /\ items[j].score = items[k].score
                               /\ IndexOf(mem, items[j].id) < IndexOf(mem, items[k].id)
      ]_vars

\* "sea" was searched with the embedding vA: the two old notes both score
\* 0.96 + 0.25 and are delivered in corpus order, the newer one first.
C13_Witness ==
    /\ lastSearch.ran
    /\ lastSearch.kind = "hybrid"
    /\ lastSearch.q = sSea
    /\ lastSearch.queryEmbedding = vA
    /\ \E k \in 1..(Len(searchResults.items) - 1) :
          /\ searchResults.items[k].id = 2
          /\ searchResults.items[k + 1].id = 3
          /\ searchResults.items[k].score = 12100
          /\ searchResults.items[k + 1].score = 12100


\* The query is empty or made of white space only.
IsBlank(q) == \A k \in 1..Len(q) : q[k] = " "

\* C14: a search evaluation delivers null if and only if the query is empty
\* or whitespace-only; an evaluation of any other query delivers a
\* sequence, empty when nothing matches, and never null.
C14_NullIffBlank ==
    lastSearch.ran => (searchResults.isNull <=> IsBlank(lastSearch.q))

\* A white-space query was evaluated over a corpus and delivered null.
C14_WitnessBlank ==
    /\ lastSearch.ran
    /\ lastSearch.q = sBlank
    /\ Len(lastSearch.mem) > 0
    /\ searchResults.isNull

\* "calm" was searched over a corpus that holds no such word, and the
\* fallback matched nothing: the empty sequence is delivered, not null.
C14_Witness ==
    /\ lastSearch.ran
    /\ lastSearch.kind = "hybrid"
    /\ lastSearch.q = scalm
    /\ Len(lastSearch.mem) > 0
    /\ searchResults = [isNull |-> FALSE, items |-> <<>>]

\* C15: an evaluation of a non-blank query shorter than 3 characters issues
\* no embedding call and delivers exactly the memories whose content,
\* summary or some topic contains the query in lower case, in corpus order.
C15_ShortQuery ==
    [][ \A t \in timers :
            (TimerFire(t) /\ ~IsBlank(t.q) /\ Len(t.q) < 3) =>
                /\ evals' = evals
                /\ searchResults' =
                      [isNull |-> FALSE,
                       items |-> SelectSeq(t.mem, LAMBDA m :
                          \/ Includes(ToLowerCase(m.content), ToLowerCase(t.q))
                          \/ Includes(ToLowerCase(m.aiMetadata.summary), ToLowerCase(t.q))
                          \/ \E topic \in Range(m.aiMetadata.topics) :
                                Includes(ToLowerCase(topic), ToLowerCase(t.q)))]
      ]_vars

\* "re" was evaluated: no embedding call is in flight and the fourth
\* memory, which holds "re" in its topic "RED" only, is delivered.
C15_Witness ==
    /\ lastSearch.ran
    /\ lastSearch.kind = "short"
    /\ lastSearch.q = sre
    /\ evals = <<>>
    /\ \E k \in 1..Len(searchResults.items) :
          /\ searchResults.items[k].id = 4
          /\ ~Includes(ToLowerCase(searchResults.items[k].content), sre)


---------------------------------------------------------------------------
(* Searching a corpus that holds a memory with a topic that is no string   *)

\* The number 5 among the topics of the AI's answer.
nFive == <<"#", "5">>

\* A recent note, and an old one whose topics are ["Sky", 5]: analyzeContent
\* checks that topics is an array and not what the array holds.
FailCorpus ==
    LET recent == NewMemory(1, sNote, Metadata(sNote, <<sRed>>, <<sCalm>>, 5000), vA, 99)
        old    == NewMemory(2, sSea, Metadata(sSea, <<sSky, nFive>>, <<>>, 5000), vB, 10)
    IN  (1 :> recent) @@ (2 :> old)

\* Queries of the hybrid path, and the empty box.
FailQueries == {<<>>, sred, sSea}

FailEmbeddings == {vNone, vA}

FailInit ==
    /\ store = FailCorpus
    /\ memories = getAllMemories(FailCorpus)
    /\ searchQuery = <<>>
    /\ searchResults = NullResults
    /\ isResurfacing = FALSE
    /\ isProcessing = FALSE
    /\ timers = {Timer(<<>>, getAllMemories(FailCorpus), FALSE)}
    /\ quiet = 0
    /\ lastSearch = NoSearch
    /\ evals = <<>>
    /\ save = NoSave
    /\ puts = {}
    /\ updates = {}
    /\ deletes = {}
    /\ now = 100
    /\ nextId = 3
    /\ RelatedIdle
    /\ CollectionsLoaded
    /\ InsightsShown

FailNext ==
    \/ \E q \in FailQueries : TypeQuery(q)
    \/ Tick
    \/ \E t \in timers : TimerFire(t)
    \/ \E i \in 1..Len(evals), v \in FailEmbeddings : EmbeddingDone(i, v)
    \/ \E i \in 1..Len(evals), v \in FailEmbeddings : SearchFailed(i, v)
    \/ \E i \in 1..Len(displayMemories) :
          Pending < MaxPending /\ HandleDeleteStart(displayMemories[i].id)
    \/ \E d \in deletes : HandleDeleteDone(d)

SpecFail == FailInit /\ [][FailNext]_vars

\* Some memory of the corpus has a topic or a mood that is not a string.
HasNonStringTag(mem) ==
    \E k \in 1..Len(mem) :
        \E tag \in Range(mem[k].aiMetadata.topics) \cup Range(mem[k].aiMetadata.mood) :
            tag # <<>> /\ tag[1] = "#"

---------------------------------------------------------------------------
(* handleResurface applied once to a corpus drawn from a pool              *)

\* The memories of a corpus in a run of SpecResurface.
MaxResurfaceCorpus == 6

\* A memory as it is stored after having been resurfaced.
Seen(m, lastResurfaced, resurfaceCount) ==
    [lastResurfaced |-> lastResurfaced, resurfaceCount |-> resurfaceCount] @@ m

\* A memory stored without an importance (AIMetadata.importance is
\* optional).
NoImportance(m) ==
    [m EXCEPT !.aiMetadata = [f \in DOMAIN m.aiMetadata \ {"importance"} |->
                                 m.aiMetadata[f]]]

\* Memories of importance 0.9 aged 40 and 2 days; of importance 0.5 aged
\* exactly 7, 8 and exactly 30 days; of importance 0 and of no importance;
\* and one of importance 0.9 resurfaced twice, the last time 2 days ago.
ResurfacePool ==
    LET M(id, importance, createdAt) ==
            NewMemory(id, sSea, Metadata(sSea, <<sSky>>, <<>>, importance), vA, createdAt)
    IN  (1 :> M(1, 9000, 60)) @@ (2 :> M(2, 9000, 98)) @@ (3 :> M(3, 5000, 93))
        @@ (4 :> M(4, 5000, 92)) @@ (5 :> M(5, 5000, 70)) @@ (6 :> M(6, 0, 97))
        @@ (7 :> NoImportance(M(7, 5000, 96))) @@ (8 :> Seen(M(8, 9000, 10), 98, 2))

ResurfaceStores ==
    { [k \in ids |-> ResurfacePool[k]] :
        ids \in {S \in SUBSET DOMAIN ResurfacePool :
                    Cardinality(S) <= MaxResurfaceCorpus} }

\* The App with a corpus loaded and the search timer of the mount run out.
ResurfaceInit ==
    /\ store \in ResurfaceStores
    /\ memories = getAllMemories(store)
    /\ searchQuery = <<>>
    /\ searchResults = NullResults
    /\ isResurfacing = FALSE
    /\ isProcessing = FALSE
    /\ timers = {}
    /\ quiet = DEBOUNCE_MS
    /\ lastSearch = Searched("blank", <<>>, memories, vNone)
    /\ evals = <<>>
    /\ save = NoSave
    /\ puts = {}
    /\ updates = {}
    /\ deletes = {}
    /\ now = 100
    /\ nextId = 9
    /\ RelatedIdle
    /\ CollectionsLoaded
    /\ InsightsShown

\* Resurface is pressed once; its writes reach the store in any order.
ResurfaceNext ==
    \/ searchResults.isNull /\ HandleResurface
    \/ \E p \in puts : ResurfacePut(p)
    \/ \E p \in puts : ResurfacePutFails(p)

SpecResurface == ResurfaceInit /\ [][ResurfaceNext]_vars

\* The time since the memory was last seen: now - (lastResurfaced or
\* createdAt).
AgeOf(m, t) == t - (IF Has(m, "lastResurfaced") THEN m.lastResurfaced ELSE m.createdAt)

\* The staleness bonus as stated: +0.3 for 7 days <= age < 30 days, +0.2
\* for age >= 30 days, nothing below 7 days.
StatedBonus(age) ==
    IF 7 <= age /\ age < 30 THEN 3000 ELSE IF age >= 30 THEN 2000 ELSE 0

\* C17: the staleness bonus of every memory scored by a resurface follows
\* the stated boundaries: +0.3 when 7 days <= age < 30 days, age exactly 7
\* days included, +0.2 when age >= 30 days, age exactly 30 days included,
\* and no bonus when age < 7 days.
C17_StalenessBoundaries ==
    [][ HandleResurface =>
            \A m \in Range(memories) :
                stalenessBonus(AgeOf(m, now)) = StatedBonus(AgeOf(m, now))
      ]_vars

\* C18: the base score of every memory scored by a resurface is its stored
\* importance whenever an importance is present, 0 included; 0.5 is used
\* only when the importance is absent.
C18_ImportanceZeroKept ==
    [][ HandleResurface =>
            \A m \in Range(memories) :
                baseImportance(m) =
                    IF Has(m.aiMetadata, "importance") THEN m.aiMetadata.importance
                    ELSE 5000
      ]_vars


\* The score as stated: importance (0.5 when absent) + staleness bonus -
\* 0.1 * resurfaceCount.
StatedScore(m, t) ==
    (IF Has(m.aiMetadata, "importance") THEN m.aiMetadata.importance ELSE 5000)
      + StatedBonus(AgeOf(m, t))
      - (IF Has(m, "resurfaceCount") THEN m.resurfaceCount ELSE 0) * 1000

\* The memory of the corpus that a returned memory was made from.
Original(r) == memories[IndexOf(memories, r.id)]

\* C19: a resurface returns the selected memories in non-increasing score
\* order, and no unselected memory has a strictly higher score than a
\* selected one, where score = importance + staleness bonus - 0.1 *
\* resurfaceCount.
C19_ResurfaceOrder ==
    [][ HandleResurface =>
            LET items == searchResults'.items
                selected == {items[k].id : k \in 1..Len(items)}
            IN  /\ \A j, k \in 1..Len(items) :
                      j < k => StatedScore(Original(items[j]), now)
                                 >= StatedScore(Original(items[k]), now)
                /\ \A m \in Range(memories) :
                      m.id \notin selected =>
                          \A k \in 1..Len(items) :
                              StatedScore(m, now) <= StatedScore(Original(items[k]), now)
      ]_vars

\* The order and the selection of C19 taken with the score handleResurface
\* computes (importance || 0.5, and the bonus of lines 477-481).
ResurfaceOrderByComputedScore ==
    [][ HandleResurface =>
            LET items == searchResults'.items
                selected == {items[k].id : k \in 1..Len(items)}
            IN  /\ \A j, k \in 1..Len(items) :
                      j < k => ResurfaceScore(Original(items[j]), now)
                                 >= ResurfaceScore(Original(items[k]), now)
                /\ \A m \in Range(memories) :
                      m.id \notin selected =>
                          \A k \in 1..Len(items) :
                              ResurfaceScore(m, now)
                                 <= ResurfaceScore(Original(items[k]), now)
                /\ \A j, k \in 1..Len(items) :
                      (items[j].id = 1 /\ items[k].id = 2) => j < k
      ]_vars


---------------------------------------------------------------------------
(* App: the mount effect and loadMemories, step by step                    *)

\* index.tsx lines 101-103: under React.StrictMode a development build runs
\* the mount effect twice, a production build once.
MOUNT_RUNS == 2

\* A loadMemories call that has been made and awaits getAllMemories.
LoadCalled(by) == [by |-> by, pc |-> "memories"]

\* Lines 94-108: the mount effect runs initApp, which calls loadMemories
\* and loadCollections; the second run comes before any store has answered.
Mount ==
    /\ mounts < MOUNT_RUNS
    /\ isLoading
    /\ \A l \in loads : l.pc = "memories"
    /\ mounts' = mounts + 1
    /\ loads' = loads \cup {LoadCalled(mounts + 1)}
    /\ collections' = getAllCollections(collStore)
    /\ UNCHANGED << store, memories, insights, searchQuery, searchResults, isResurfacing,
                    isProcessing, timers, quiet, lastSearch, evals, save, puts,
                    updates, deletes, now, nextId, collStore, isLoading >>
    /\ UNCHANGED relatedVars

\* Lines 201-228: getAllMemories answers; memories is set and collectionMap
\* is built from the items.
LoadRead(l) ==
    /\ l \in loads
    /\ l.pc = "memories"
    /\ SetMemories(getAllMemories(store))
    /\ loads' = (loads \ {l}) \cup
          {[by |-> l.by, pc |-> "existing",
            todo |-> collectionMap(getAllMemories(store))]}
    /\ UNCHANGED << store, searchQuery, searchResults, isResurfacing, isProcessing,
                    lastSearch, evals, save, puts, updates, deletes, now, nextId,
                    collStore, collections, isLoading, mounts >>
    /\ UNCHANGED relatedVars

\* Line 231: getAllCollections answers with the collections stored now.
LoadExisting(l) ==
    /\ l \in loads
    /\ l.pc = "existing"
    /\ loads' = (loads \ {l}) \cup
          {[by |-> l.by, pc |-> "saving", todo |-> l.todo,
            existing |-> getAllCollections(collStore)]}
    /\ UNCHANGED << store, memories, insights, searchQuery, searchResults, isResurfacing,
                    isProcessing, timers, quiet, lastSearch, evals, save, puts,
                    updates, deletes, now, nextId, collStore, collections,
                    isLoading, mounts >>
    /\ UNCHANGED relatedVars

\* Lines 234-252, one iteration: saveCollection writes the collection made
\* from the snapshot of the existing ones.
LoadSaveCollection(l) ==
    /\ l \in loads
    /\ l.pc = "saving"
    /\ l.todo # <<>>
    /\ collStore' = Put(collStore, CollectionFor(collStore, l.existing, Head(l.todo), now))
    /\ loads' = (loads \ {l}) \cup {[l EXCEPT !.todo = Tail(l.todo)]}
    /\ UNCHANGED << store, memories, insights, searchQuery, searchResults, isResurfacing,
                    isProcessing, timers, quiet, lastSearch, evals, save, puts,
                    updates, deletes, now, nextId, collections, isLoading, mounts >>
    /\ UNCHANGED relatedVars

\* Lines 255, 210-217: loadCollections sets collections and loadMemories
\* returns: to initApp, which takes the loading screen away, or to
\* handleSave, whose finally clears isProcessing.
LoadEnd(l) ==
    /\ l \in loads
    /\ l.pc = "saving"
    /\ l.todo = <<>>
    /\ loads' = loads \ {l}
    /\ collections' = getAllCollections(collStore)
    /\ IF l.by = 0
       THEN /\ save' = [save EXCEPT !.pc = "done"]
            /\ isProcessing' = FALSE
            /\ UNCHANGED isLoading
       ELSE /\ isLoading' = FALSE
            /\ UNCHANGED << save, isProcessing >>
    /\ UNCHANGED << store, memories, insights, searchQuery, searchResults, isResurfacing,
                    timers, quiet, lastSearch, evals, puts, updates, deletes, now,
                    nextId, collStore, mounts >>
    /\ UNCHANGED relatedVars

\* Line 427: handleSave calls loadMemories and awaits it.
HandleSaveLoadCalled ==
    /\ save.pc = "loading"
    /\ save' = [save EXCEPT !.pc = "syncing"]
    /\ loads' = loads \cup {LoadCalled(0)}
    /\ UNCHANGED << store, memories, insights, searchQuery, searchResults, isResurfacing,
                    isProcessing, timers, quiet, lastSearch, evals, puts, updates,
                    deletes, now, nextId, collStore, collections, isLoading, mounts >>
    /\ UNCHANGED relatedVars


---------------------------------------------------------------------------
(* The App mounting on a store, and saves: the collections in the store    *)

\* Memory ids handed out in a run of SpecCollections.
MaxCollectionSaves == 3

\* A memory stored by a session that ended before its collections were
\* written.
sWork == "Work"

CollectionAnswers ==
    { [content |-> sNote, metadata |-> Metadata(sNote, <<sRed>>, <<>>, 5000),
       embedding |-> vNone],
      [content |-> sSea,
       metadata |-> [Metadata(sSea, <<sSky>>, <<>>, 5000) EXCEPT !.collection = sWork],
       embedding |-> vNone] }

\* The App constructed over an empty store, or over a store that holds one
\* memory and no collection yet; the loading screen is shown and the mount
\* effect has not run.
CollectionsInit ==
    /\ store \in { << >>,
                   (1 :> NewMemory(1, sNote, Metadata(sNote, <<sRed>>, <<>>, 5000),
                                   vNone, 0)) }
    /\ memories = <<>>
    /\ insights = <<>>
    /\ searchQuery = <<>>
    /\ searchResults = NullResults
    /\ isResurfacing = FALSE
    /\ isProcessing = FALSE
    /\ timers = {Timer(<<>>, <<>>, FALSE)}
    /\ quiet = 0
    /\ lastSearch = NoSearch
    /\ evals = <<>>
    /\ save = NoSave
    /\ puts = {}
    /\ updates = {}
    /\ deletes = {}
    /\ now = 0
    /\ nextId = 2
    /\ collStore = << >>
    /\ collections = <<>>
    /\ loads = {}
    /\ isLoading = TRUE
    /\ mounts = 0
    /\ RelatedIdle

\* The save form is rendered once the loading screen is gone (line 552).
CollectionsNext ==
    \/ Mount
    \/ \E l \in loads : LoadRead(l)
    \/ \E l \in loads : LoadExisting(l)
    \/ \E l \in loads : LoadSaveCollection(l)
    \/ \E l \in loads : LoadEnd(l)
    \/ ~isLoading /\ HandleSaveStart(MaxCollectionSaves)
    \/ \E a \in CollectionAnswers :
          HandleSaveAnalyzed(a.content, a.metadata, a.embedding)
    \/ HandleSaveRead
    \/ HandleSavePut
    \/ HandleSaveLoadCalled

SpecCollections == CollectionsInit /\ [][CollectionsNext]_vars

\* No load is in flight, no save is between its write and the end of its
\* load, and the mount has completed.
SyncCompleted ==
    /\ loads = {}
    /\ ~isLoading
    /\ save.pc \in {"idle", "done"}

\* The ids of the stored memories whose collection has this name.
IdsOfCollection(st, name) ==
    {st[k].id : k \in {j \in DOMAIN st : collectionName(st[j]) = name}}

\* C20: a Collection's memoryIds never shrinks and, once a load/sync cycle
\* has completed, is a superset of the ids of all stored memories whose
\* collection (defaulting to "General") equals its name, in every
\* interleaving of saves and loads, overlapping syncs included.
C20_CollectionsSuperset ==
    [][ /\ \A id \in DOMAIN collStore :
              /\ id \in DOMAIN collStore'
              /\ Range(collStore[id].memoryIds) \subseteq Range(collStore'[id].memoryIds)
        /\ SyncCompleted' =>
              \A id \in DOMAIN collStore' :
                  IdsOfCollection(store', collStore'[id].name)
                      \subseteq Range(collStore'[id].memoryIds)
      ]_vars

---------------------------------------------------------------------------
(* The insights shown while a corpus drawn from a pool is loaded, edited   *)
(* and deleted from                                                        *)

\* The memories of a corpus in a run of SpecMine.
MaxInsightCorpus == 5

\* Memories of importance above 0.6 last seen 31, 40, 80 and 60 days ago
\* (ids 1, 3, 6, 8); of importance exactly 0.6 and of no importance, both
\* old; of importance 0.9 and resurfaced yesterday; of importance 0.9 and
\* exactly 30 days old.  Memory 2 has the topic Red twice, as the AI may
\* answer it.
InsightPool ==
    LET M(id, topics, importance, createdAt) ==
            NewMemory(id, sSea, Metadata(sSea, topics, <<>>, importance), vNone,
                      createdAt)
    IN  (1 :> M(1, <<sRed, sSky>>, 9000, 69))
        @@ (2 :> M(2, <<sRed, sRed>>, 6000, 10))
        @@ (3 :> M(3, <<sSky, sCalm>>, 7000, 60))
        @@ (4 :> NoImportance(M(4, <<sRED, sCalm>>, 5000, 11)))
        @@ (5 :> Seen(M(5, <<sRed, sSea>>, 9000, 50), 99, 1))
        @@ (6 :> M(6, <<sSea, sSky>>, 8000, 20))
        @@ (7 :> M(7, <<sCalm, sSea>>, 9000, 70))
        @@ (8 :> M(8, <<>>, 10000, 40))

InsightStores ==
    { [k \in ids |-> InsightPool[k]] :
        ids \in {S \in SUBSET DOMAIN InsightPool :
                    Cardinality(S) <= MaxInsightCorpus} }

\* MemoryDetail.removeTopic: the item without the topic.
RemoveTopic(item, topic) ==
    [item EXCEPT !.aiMetadata.topics = SelectSeq(@, LAMBDA t : t # topic)]

\* The App before its mount effect, over a stored corpus.
MineInit ==
    /\ store \in InsightStores
    /\ memories = <<>>
    /\ insights = <<>>
    /\ searchQuery = <<>>
    /\ searchResults = NullResults
    /\ isResurfacing = FALSE
    /\ isProcessing = FALSE
    /\ timers = {Timer(<<>>, <<>>, FALSE)}
    /\ quiet = 0
    /\ lastSearch = NoSearch
    /\ evals = <<>>
    /\ save = NoSave
    /\ puts = {}
    /\ updates = {}
    /\ deletes = {}
    /\ now = 100
    /\ nextId = 9
    /\ collStore = << >>
    /\ collections = <<>>
    /\ loads = {}
    /\ isLoading = TRUE
    /\ mounts = 0
    /\ RelatedIdle

\* The corpus is loaded (twice, under StrictMode) and its insights are
\* generated.
MineNext ==
    \/ Mount
    \/ \E l \in loads : LoadRead(l)
    \/ \E l \in loads : LoadExisting(l)
    \/ \E l \in loads : LoadSaveCollection(l)
    \/ \E l \in loads : LoadEnd(l)

SpecMine == MineInit /\ [][MineNext]_vars

\* The last id a save takes in a run of SpecInsights.
MaxInsightId == 9

\* The corpora a run of SpecInsights starts from.
InsightCorpora == { {1, 2, 3, 6} }

\* What the AI provider answers for the save in SpecInsights.
InsightAnswers ==
    { [content |-> sNote, metadata |-> Metadata(sNote, <<sSky, sSea>>, <<>>, 9000),
       embedding |-> vNone] }

\* The App with a corpus loaded.
InsightsInit ==
    /\ store \in { [k \in ids |-> InsightPool[k]] : ids \in InsightCorpora }
    /\ memories = getAllMemories(store)
    /\ searchQuery = <<>>
    /\ searchResults = NullResults
    /\ isResurfacing = FALSE
    /\ isProcessing = FALSE
    /\ timers = {Timer(<<>>, memories, FALSE)}
    /\ quiet = 0
    /\ lastSearch = NoSearch
    /\ evals = <<>>
    /\ save = NoSave
    /\ puts = {}
    /\ updates = {}
    /\ deletes = {}
    /\ now = 100
    /\ nextId = 9
    /\ RelatedIdle
    /\ CollectionsLoaded
    /\ InsightsShown

\* One memory is saved; topics are removed and memories deleted, one
\* operation at a time; Resurface is pressed.
InsightsNext ==
    \/ HandleSaveStart(MaxInsightId)
    \/ \E a \in InsightAnswers : HandleSaveAnalyzed(a.content, a.metadata, a.embedding)
    \/ HandleSaveRead
    \/ HandleSavePut
    \/ HandleSaveLoad
    \/ \E i \in 1..Len(displayMemories) :
          \E t \in Range(displayMemories[i].aiMetadata.topics) :
              /\ Pending < MaxPending
              /\ HandleUpdateStart(RemoveTopic(displayMemories[i], t))
    \/ \E u \in updates : HandleUpdatePut(u)
    \/ \E u \in updates : HandleUpdateFails(u)
    \/ \E i \in 1..Len(displayMemories) :
          /\ Pending < MaxPending
          /\ HandleDeleteStart(displayMemories[i].id)
    \/ \E d \in deletes : HandleDeleteDone(d)

SpecInsights == InsightsInit /\ [][InsightsNext]_vars


\* C21: whenever the corpus held by the App changes (a save's load, a
\* delete, an edit), the insights are recomputed in the same step: they
\* equal generateInsights of the new corpus, and so are empty once the
\* corpus has fewer than 3 memories.
C21_InsightsRecomputed ==
    [][ (memories' # memories \/ insights' # insights) =>
            /\ insights' = generateInsights(memories', now)
            /\ Len(memories') < 3 => insights' = <<>> ]_vars

\* A corpus of four with insights has been taken below three memories.
C21_Witness ==
    /\ Len(memories) = 2
    /\ insights = <<>>
    /\ deletes = {}


\* C22: every pattern insight shown reports a count equal to the number of
\* memoryIds it lists (each memory counts once towards a topic), that
\* number is at least 2, and its relevance is min(1, count / totalMemories)
\* for that number.
C22_PatternCounts ==
    \A i \in 1..Len(insights) :
        insights[i].type = "pattern" =>
            /\ insights[i].count = Len(insights[i].memoryIds)
            /\ Len(insights[i].memoryIds) >= 2
            /\ Len(memories) > 0 =>
                  insights[i].relevance =
                      Min(SCALE, (Len(insights[i].memoryIds) * SCALE) \div Len(memories))


\* The memories a reminder is about: importance (0.5 when missing) above
\* 0.6 and last seen (lastResurfaced, or createdAt) more than 30 days ago.
Forgotten(mem, t) ==
    SelectSeq(mem, LAMBDA m :
        /\ (IF Has(m.aiMetadata, "importance") THEN m.aiMetadata.importance ELSE 5000)
               > 6000
        /\ AgeOf(m, t) > 30)

Reminders == SelectSeq(insights, LAMBDA p : p.type = "reminder")

\* The reminder, when there is one, lists the first up to 3 forgotten
\* memories in corpus order, with relevance 0.8.
ReminderBundlesFirstThree ==
    \A i \in 1..Len(Reminders) :
        LET forgotten == Forgotten(memories, now)
            first == SliceTo(forgotten, 3)
        IN  /\ Reminders[i].memoryIds = [k \in 1..Len(first) |-> first[k].id]
            /\ Reminders[i].relevance = 8000

\* C23: at most one reminder insight is shown, and it is shown exactly when
\* some memory of the corpus has importance above 0.6 and was last seen
\* more than 30 days ago; it lists the first up to 3 of them in corpus
\* order, with relevance 0.8.
C23_Reminder ==
    /\ Len(Reminders) <= 1
    /\ Len(Reminders) = 1 <=> Forgotten(memories, now) # <<>>
    /\ ReminderBundlesFirstThree

\* C23 as the code has it: the reminder is shown exactly when the corpus
\* has at least 3 memories and one of them is forgotten.
C23_ReminderOfThreeOrMore ==
    /\ Len(Reminders) <= 1
    /\ Len(Reminders) = 1 <=>
          (Len(memories) >= 3 /\ Forgotten(memories, now) # <<>>)
    /\ ReminderBundlesFirstThree

\* Four memories of the corpus are forgotten and the reminder lists three.
C23_Witness ==
    /\ Len(Forgotten(memories, now)) = 4
    /\ Len(Reminders) = 1
    /\ Len(Reminders[1].memoryIds) = 3


Patterns == SelectSeq(insights, LAMBDA p : p.type = "pattern")

\* The topics of the corpus.
CorpusTopics ==
    UNION {Range(memories[i].aiMetadata.topics) : i \in 1..Len(memories)}

\* The frequency of a topic: the number of memories that have it.
Frequency(topic) ==
    Cardinality({i \in 1..Len(memories) : topic \in Range(memories[i].aiMetadata.topics)})

\* The frequency as generateInsights counts it: the number of times the
\* topic is written in the corpus.
CountedFrequency(topic) ==
    LET at(i) == {k \in 1..Len(memories[i].aiMetadata.topics) :
                      memories[i].aiMetadata.topics[k] = topic}
        sizes == [i \in 1..Len(memories) |-> Cardinality(at(i))]
        Sum[i \in 0..Len(memories)] == IF i = 0 THEN 0 ELSE Sum[i - 1] + sizes[i]
    IN  Sum[Len(memories)]

\* C26: the pattern insights shown are about topics that are among the 3
\* most frequent of the corpus and are had by at least 2 memories; they
\* come in non-increasing order of topic frequency; the reminder, if any,
\* comes after every pattern; and at most 4 insights are shown.
C26_TopThreePatterns ==
    /\ \A i \in 1..Len(Patterns) :
          /\ Frequency(Patterns[i].topic) >= 2
          /\ Cardinality({t \in CorpusTopics :
                             Frequency(t) > Frequency(Patterns[i].topic)}) < 3
    /\ \A i, j \in 1..Len(Patterns) :
          i < j => Frequency(Patterns[i].topic) >= Frequency(Patterns[j].topic)
    /\ \A i, j \in 1..Len(insights) :
          i < j /\ insights[i].type = "reminder" => insights[j].type # "pattern"
    /\ Len(insights) <= 4

\* The same with the frequency that generateInsights counts.
PatternsByCountedFrequency ==
    /\ \A i \in 1..Len(Patterns) :
          /\ CountedFrequency(Patterns[i].topic) >= 2
          /\ Patterns[i].count = CountedFrequency(Patterns[i].topic)
          /\ Cardinality({t \in CorpusTopics :
                             CountedFrequency(t) > CountedFrequency(Patterns[i].topic)}) < 3
    /\ \A i, j \in 1..Len(Patterns) :
          i < j => Patterns[i].count >= Patterns[j].count
    /\ \A i, j \in 1..Len(insights) :
          i < j /\ insights[i].type = "reminder" => insights[j].type # "pattern"
    /\ Len(insights) <= 4

---------------------------------------------------------------------------
(* services/gemini: analyzeContent and getEmbedding over what the AI       *)
(* provider answers                                                        *)

sCouldNot ==
    << "C", "o", "u", "l", "d", " ", "n", "o", "t", " ", "a", "n", "a", "l", "y",
       "z", "e", " ", "c", "o", "n", "t", "e", "n", "t", "." >>
sNoSummary ==
    << "N", "o", " ", "s", "u", "m", "m", "a", "r", "y", " ", "a", "v", "a", "i",
       "l", "a", "b", "l", "e", "." >>
sUncategorized ==
    << "U", "n", "c", "a", "t", "e", "g", "o", "r", "i", "z", "e", "d" >>

\* Lines 166-173: the metadata returned from catch.
DefaultMetadata ==
    [summary |-> sCouldNot, topics |-> <<sUncategorized>>, mood |-> <<>>,
     colors |-> <<"#CCCCCC">>, collection |-> "General",
     importance |-> IMPORTANCE_DEFAULT]

\* Line 162: Math.max(0, Math.min(1, parsed.importance))
Clamp(x) == Max(0, Min(SCALE, x))

\* Lines 155-163: the metadata made of the parsed answer; a field the
\* answer lacks is absent from parsed.
Defensive(parsed) ==
    [summary |-> IF Has(parsed, "summary") /\ parsed.summary # <<>>
                 THEN parsed.summary ELSE sNoSummary,
     topics |-> ArrOrEmpty(parsed, "topics"),
     mood |-> ArrOrEmpty(parsed, "mood"),
     colors |-> ArrOrEmpty(parsed, "colors"),
     collection |-> IF Has(parsed, "collection") /\ parsed.collection # ""
                    THEN parsed.collection ELSE "General",
     importance |-> IF Has(parsed, "importance") THEN Clamp(parsed.importance)
                    ELSE IMPORTANCE_DEFAULT]

\* Lines 143-163, the body of try: generateContent rejects, or answers no
\* text or text that is not JSON, and the body throws; else the metadata
\* is returned.
AnalysisTried(r) ==
    IF r.ok THEN [threw |-> FALSE, value |-> Defensive(r.parsed)]
    ELSE [threw |-> TRUE, value |-> DefaultMetadata]

analyzeContentMut(r) == AnalysisTried(r)

\* Lines 143-176: what is thrown in try is caught and answered with the
\* default metadata.
analyzeContent(r) ==
    IF AnalysisTried(r).threw THEN [threw |-> FALSE, value |-> DefaultMetadata]
    ELSE AnalysisTried(r)

\* Lines 16-28: response.embedding?.values || [], and [] from catch.
getEmbedding(r) == IF r.ok THEN r.values ELSE <<>>

\* Line 399: refinedEmbedding.length > 0 ? refinedEmbedding : embedding
embeddingOf(embedding, refinedEmbedding) ==
    IF Len(refinedEmbedding) > 0 THEN refinedEmbedding ELSE embedding

\* Lines 429-434: something thrown inside try before any write: catch logs
\* and alerts, finally clears isProcessing.
HandleSaveThrows ==
    /\ save' = [save EXCEPT !.pc = "failed"] @@ [failedAt |-> "analysis"]
    /\ isProcessing' = FALSE
    /\ UNCHANGED << store, memories, insights, searchQuery, searchResults,
                    isResurfacing, timers, quiet, lastSearch, evals, puts, updates,
                    deletes, now, nextId >>
    /\ UNCHANGED relatedVars
    /\ UNCHANGED collectionVars

\* Lines 386-402: the provider has answered, or failed, the analysis
\* (analysis), the embedding of the content (first) and the embedding of
\* the content with its summary and tags (refined).
HandleSaveAnswered(content, analysis, first, refined) ==
    /\ save.pc = "analyzing"
    /\ IF analyzeContent(analysis).threw
       THEN HandleSaveThrows
       ELSE HandleSaveAnalyzed(content, analyzeContent(analysis).value,
                               embeddingOf(getEmbedding(first), getEmbedding(refined)))

---------------------------------------------------------------------------
(* Saves whose AI calls fail                                               *)

\* Saves started in a run of SpecAI.
MaxAISaves == 3

\* What generateContent answers: a failure, a full answer, an answer
\* without the optional fields and with an importance out of range.
AIAnalyses ==
    { [ok |-> FALSE, parsed |-> << >>],
      [ok |-> TRUE, parsed |-> [summary |-> sNote, topics |-> <<sRed>>,
                                mood |-> <<sCalm>>, colors |-> <<"#FF0000">>,
                                collection |-> "Cars", importance |-> 9000]],
      [ok |-> TRUE, parsed |-> [summary |-> <<>>, topics |-> <<sUncategorized>>,
                                mood |-> <<>>, importance |-> 12000]] }

\* What embedContent answers: a failure or a vector.
AIEmbeddings == { [ok |-> FALSE, values |-> <<>>], [ok |-> TRUE, values |-> vA],
                  [ok |-> TRUE, values |-> vB] }

AINext ==
    \/ HandleSaveStart(MaxAISaves)
    \/ \E r \in AIAnalyses : \E first, refined \in AIEmbeddings :
          HandleSaveAnswered(sNote, r, first, refined)
    \/ HandleSaveRead
    \/ HandleSaveLink
    \/ HandleSaveLinkFails
    \/ HandleSavePut
    \/ HandleSavePutFails
    \/ HandleSaveLoad

SpecAI == LinkInit /\ [][AINext]_vars

\* C24: a failure of the AI provider never prevents a save.  Whatever the
\* provider answers, the save goes on to read the store; when the analysis
\* failed the memory carries the default metadata, and when both
\* embeddings failed it carries an empty embedding.  A save ends without
\* its memory stored only when a store write fails, which with an empty
\* embedding can only be the write of the new memory (no link is written);
\* and the memory is stored as it was built.
C24_AIFailureKeepsSave ==
    [][ /\ \A r \in AIAnalyses : \A first, refined \in AIEmbeddings :
              HandleSaveAnswered(sNote, r, first, refined) =>
                  /\ save'.pc = "reading"
                  /\ ~r.ok =>
                        /\ save'.newMemory.aiMetadata.summary = sCouldNot
                        /\ save'.newMemory.aiMetadata.topics = <<sUncategorized>>
                        /\ save'.newMemory.aiMetadata.colors = <<"#CCCCCC">>
                        /\ save'.newMemory.aiMetadata.collection = "General"
                        /\ save'.newMemory.aiMetadata.importance = 5000
                  /\ (~first.ok /\ ~refined.ok) => save'.newMemory.embedding = <<>>
        /\ (save.pc = "analyzing" /\ save'.pc # "analyzing") => save'.pc = "reading"
        /\ (save.pc = "reading" /\ save'.pc # "reading" /\ save.newMemory.embedding = <<>>) =>
              /\ save'.pc = "linking"
              /\ save'.relatedIds = <<>>
        /\ (save.pc # "failed" /\ save'.pc = "failed") =>
              /\ save'.failedAt \in {"link", "put"}
              /\ save.newMemory.embedding = <<>> => save'.failedAt = "put"
        /\ (save.pc = "linking" /\ save'.pc = "loading") =>
              /\ save.id \in DOMAIN store'
              /\ store'[save.id] = save.newMemory
      ]_vars

\* A save whose analysis and embeddings all failed has ended with its
\* memory stored, beside an earlier memory that has the default topic too.
C24_Witness ==
    /\ save.pc = "done"
    /\ save.id \in DOMAIN store
    /\ store[save.id].aiMetadata.summary = sCouldNot
    /\ store[save.id].embedding = <<>>
    /\ Cardinality(DOMAIN store) >= 2

---------------------------------------------------------------------------
(* findRelatedMemories: which of the qualifying memories are returned      *)

\* The finalScore of a corpus memory against the memory being linked.
StatedFinalScore(other) ==
    cosineSimilarity(memory.embedding, other.embedding)
        + (IF SharesTopic(memory, other) THEN 1000 ELSE 0)

\* The corpus memories that qualify, in corpus order.
Qualifying ==
    SelectSeq(allMemories,
              LAMBDA o : o.id # memory.id /\ StatedFinalScore(o) >= 6500)

---------------------------------------------------------------------------
(* Deleted memories                                                        *)

\* C27: a record that is not in the store comes into it only as the new
\* memory of the running save, written for the first time: no write of a
\* save's back-link, of a resurface or of an edit puts a deleted memory
\* back.
C27_DeletedStaysDeleted ==
    [][ \A id \in DOMAIN store' \ DOMAIN store :
            /\ save.pc = "linking"
            /\ save.i > Len(save.relatedIds)
            /\ id = save.id ]_vars

---------------------------------------------------------------------------
(* Resurfacing mode while the search effect runs                           *)

\* Lines 506-509: clearResurface.
ClearResurface ==
    /\ isResurfacing
    /\ isResurfacing' = FALSE
    /\ searchResults' = NullResults
    /\ UNCHANGED << store, memories, insights, searchQuery, isProcessing, timers, quiet,
                    lastSearch, evals, save, puts, updates, deletes, now, nextId >>
    /\ UNCHANGED relatedVars
    /\ UNCHANGED collectionVars

\* What the user types in a run of SpecMode: nothing, a short query and a
\* query that is embedded.
ModeQueries == {<<>>, sre, sred}

\* Resurface is pressed before, between and after queries; the resurfaced
\* memories are written; memories are deleted.
ModeNext ==
    \/ \E q \in ModeQueries : TypeQuery(q)
    \/ Tick
    \/ \E t \in timers : TimerFire(t)
    \/ \E i \in 1..Len(evals) : EmbeddingDone(i, vA)
    \/ puts = {} /\ Pending < MaxPending /\ HandleResurface
    \/ \E p \in puts : ResurfacePut(p)
    \/ ClearResurface
    \/ \E i \in 1..Len(displayMemories) :
          Pending < MaxPending /\ HandleDeleteStart(displayMemories[i].id)
    \/ \E d \in deletes : HandleDeleteDone(d)

SpecMode == SearchInit /\ [][ModeNext]_vars

\* C28: while resurfacing mode stays on, searchResults holds the
\* resurfaced memories: it is not null, and it changes only by a new
\* resurface or by leaving out a deleted memory.
C28_ResurfacedResultsStay ==
    [][ /\ isResurfacing' => ~searchResults'.isNull
        /\ (isResurfacing /\ isResurfacing' /\ searchResults' # searchResults) =>
              \/ HandleResurface
              \/ /\ ~searchResults.isNull
                 /\ Range(searchResults'.items) \subseteq Range(searchResults.items)
      ]_vars

---------------------------------------------------------------------------
(* Collections of one name                                                 *)

\* C29: the collections store never holds two Collection records of the
\* same name.
C29_UniqueCollectionNames ==
    \A a, b \in DOMAIN collStore :
        collStore[a].name = collStore[b].name => a = b

---------------------------------------------------------------------------
(* Saves that run to their end                                             *)

\* Saves started in a run of SpecSaving.
MaxSavingSaves == 3

\* The provider fails both calls of a save, or answers both.
SavingAnswers ==
    { [analysis |-> [ok |-> FALSE, parsed |-> << >>],
       embedding |-> [ok |-> FALSE, values |-> <<>>]],
      [analysis |-> [ok |-> TRUE, parsed |-> [summary |-> sNote, topics |-> <<sRed>>,
                                              mood |-> <<sCalm>>, importance |-> 9000]],
       embedding |-> [ok |-> TRUE, values |-> vA]] }

\* The AI calls of the running save settle.
SaveAnswered ==
    \E a \in SavingAnswers :
        HandleSaveAnswered(sNote, a.analysis, a.embedding, a.embedding)

\* A store call of the running save settles: it succeeds or it rejects.
SaveLinked == HandleSaveLink \/ HandleSaveLinkFails
SaveWritten == HandleSavePut \/ HandleSavePutFails

SavingNext ==
    \/ HandleSaveStart(MaxSavingSaves)
    \/ SaveAnswered
    \/ HandleSaveRead
    \/ SaveLinked
    \/ SaveWritten
    \/ HandleSaveLoad

\* What the awaited loadMemories does to the save, lines 425-427 and
\* 432-434: handleSave runs on through its finally. HandleSaveLoad is the
\* one action of SavingNext that takes this step, and it can take it
\* whenever this step is possible.
SaveLoaded ==
    /\ save.pc = "loading"
    /\ loads = {}
    /\ save' = [save EXCEPT !.pc = "done"]
    /\ isProcessing' = FALSE

\* The saves where every awaited call settles, so that handleSave runs on
\* to its next await or to its end.
SpecSaving ==
    /\ LinkInit
    /\ [][SavingNext]_vars
    /\ WF_vars(SaveAnswered)
    /\ WF_vars(HandleSaveRead)
    /\ WF_vars(SaveLinked)
    /\ WF_vars(SaveWritten)
    /\ WF_save(SaveLoaded)

\* handleSave is between its guard and its finally.
SaveRunning == save.pc \notin {"idle", "done", "failed"}

\* C30: at most one save is in progress at any time: isProcessing is true
\* exactly while a save runs, and a save starts only when none is running;
\* and every started save sets isProcessing back to false, whether it ends
\* with its memory stored or with a failed write.
C30_OneSaveThatEnds ==
    /\ [](isProcessing <=> SaveRunning)
    /\ [][ (save' # save /\ save'.pc = "analyzing") =>
               (~isProcessing /\ ~SaveRunning) ]_vars
    /\ (isProcessing ~> ~isProcessing)

\* A save has ended with a failed write after an earlier one has ended
\* with its memory stored, and isProcessing is false.
C30_Witness ==
    /\ save.pc = "failed"
    /\ ~isProcessing
    /\ Cardinality(DOMAIN store) >= 1

===========================================================================
